---------------------------- MODULE Spec2Model ----------------------------
(***************************************************************************)
(* State-machine model of mrs_controllers::nsf_controller::NsfController   *)
(* (src/src/pid_controller/pid_controller.cpp, lines 391-1302).            *)
(*                                                                         *)
(* Numbers.  Every C++ double is a fixed-point integer with three decimal  *)
(* places (the value 1.0 is the integer 1000), or one of the three         *)
(* non-finite values NaN, PInf, NInf.  ros::Time stamps are whole          *)
(* milliseconds, so that (a - b).toSec() is the plain difference of two    *)
(* stamps and the literal 0.001 is the integer 1.                          *)
(***************************************************************************)
EXTENDS Integers, Sequences, FiniteSets, TLC

(***************************************************************************)
(* IEEE-754 double arithmetic on the fixed-point representation            *)
(***************************************************************************)

\* one unit of the fixed-point representation: 1.0 == Scale
Scale == 1000

NaN == 2000000001
PInf == 2000000002
NInf == 2000000003

\* std::isfinite
IsFinite(x) == x < NaN

\* fabs
Abs(x) == IF IsFinite(x) THEN (IF x < 0 THEN -x ELSE x)
          ELSE IF x = NaN THEN NaN ELSE PInf

\* unary minus
Neg(x) == IF IsFinite(x) THEN -x
          ELSE IF x = NaN THEN NaN
          ELSE IF x = PInf THEN NInf ELSE PInf

\* a + b
Add(a, b) == IF IsFinite(a) /\ IsFinite(b) THEN a + b
             ELSE IF a = NaN \/ b = NaN THEN NaN
             ELSE IF a = PInf THEN (IF b = NInf THEN NaN ELSE PInf)
             ELSE IF a = NInf THEN (IF b = PInf THEN NaN ELSE NInf)
             ELSE b

\* a - b
Sub(a, b) == Add(a, Neg(b))

\* a < b, false whenever an operand is NaN
Lt(a, b) == IF IsFinite(a) /\ IsFinite(b) THEN a < b
            ELSE IF a = NaN \/ b = NaN THEN FALSE
            ELSE IF a = b THEN FALSE
            ELSE IF a = NInf \/ b = PInf THEN TRUE
            ELSE FALSE

\* a > b
Gt(a, b) == Lt(b, a)

\* a <= b
Le(a, b) == IF a = NaN \/ b = NaN THEN FALSE ELSE ~Lt(b, a)

\* mrs_lib::sign: (0 < val) - (val < 0)
Sign(x) == (IF Lt(0, x) THEN 1 ELSE 0) - (IF Lt(x, 0) THEN 1 ELSE 0)

\* rounding of an exact quotient n / d (d > 0) to the nearest unit,
\* ties away from zero
RoundDiv(n, d) == IF n >= 0 THEN (2 * n + d) \div (2 * d)
                  ELSE -((2 * (-n) + d) \div (2 * d))

\* a * b
Mul(a, b) == IF IsFinite(a) /\ IsFinite(b) THEN RoundDiv(a * b, Scale)
             ELSE IF a = NaN \/ b = NaN THEN NaN
             ELSE IF a = 0 \/ b = 0 THEN NaN
             ELSE IF Sign(a) * Sign(b) > 0 THEN PInf ELSE NInf

\* a / b
Div(a, b) == IF IsFinite(a) /\ IsFinite(b)
             THEN (IF b > 0 THEN RoundDiv(a * Scale, b)
                   ELSE IF b < 0 THEN RoundDiv((-a) * Scale, -b)
                   ELSE IF a = 0 THEN NaN ELSE IF a > 0 THEN PInf ELSE NInf)
             ELSE IF a = NaN \/ b = NaN THEN NaN
             ELSE IF IsFinite(a) THEN 0
             ELSE IF ~IsFinite(b) THEN NaN
             ELSE IF (a = PInf) = (b >= 0) THEN PInf ELSE NInf


(***************************************************************************)
(* <math.h> on the fixed-point representation.  The series are evaluated   *)
(* with one more decimal place (Fine) than the result keeps.               *)
(***************************************************************************)

Fine == 10000

\* product of two values held with Fine units per 1.0
FMul(a, b) == RoundDiv(a * b, Fine)

\* greatest r in lo..hi with r * r <= n (lo * lo <= n < (hi + 1) * (hi + 1))
RECURSIVE ISqrt(_, _, _)
ISqrt(n, lo, hi) ==
    IF lo >= hi THEN lo
    ELSE LET mid == (lo + hi + 1) \div 2
         IN IF mid * mid <= n THEN ISqrt(n, mid, hi) ELSE ISqrt(n, lo, mid - 1)

\* sqrt: NaN below zero
SqrtValue(x) == IF x = NaN \/ x = NInf THEN NaN
           ELSE IF x = PInf THEN PInf
           ELSE IF x < 0 THEN NaN
           ELSE LET n == x * Scale
                    r == ISqrt(n, 0, 46340)
                IN IF n - r * r > r THEN r + 1 ELSE r

\* sin for |x| <= pi: Taylor series to the x^11 term
SinValue(x) == IF ~IsFinite(x) THEN NaN
          ELSE LET f  == x * (Fine \div Scale)
                   f2 == FMul(f, f)
                   t5 == Fine - RoundDiv(f2, 110)
                   t4 == Fine - FMul(RoundDiv(f2, 72), t5)
                   t3 == Fine - FMul(RoundDiv(f2, 42), t4)
                   t2 == Fine - FMul(RoundDiv(f2, 20), t3)
                   t1 == Fine - FMul(RoundDiv(f2, 6), t2)
               IN RoundDiv(FMul(f, t1), Fine \div Scale)

\* cos for |x| <= pi: Taylor series to the x^10 term
CosValue(x) == IF ~IsFinite(x) THEN NaN
          ELSE LET f  == x * (Fine \div Scale)
                   f2 == FMul(f, f)
                   t5 == Fine - RoundDiv(f2, 90)
                   t4 == Fine - FMul(RoundDiv(f2, 56), t5)
                   t3 == Fine - FMul(RoundDiv(f2, 30), t4)
                   t2 == Fine - FMul(RoundDiv(f2, 12), t3)
                   t1 == Fine - FMul(RoundDiv(f2, 2), t2)
               IN RoundDiv(t1, Fine \div Scale)

\* pi / 2 with Fine units per 1.0
HalfPiFine == 15708

\* asin of f (Fine units per 1.0), 0 <= f <= Fine / 2, in Fine units:
\* x + x^3/6 + 3x^5/40 + 15x^7/336 + 105x^9/3456
AsinSeries(f) ==
    LET f2 == FMul(f, f)
        f3 == FMul(f2, f)
        f5 == FMul(f3, f2)
        f7 == FMul(f5, f2)
        f9 == FMul(f7, f2)
    IN f + RoundDiv(f3, 6) + RoundDiv(3 * f5, 40) + RoundDiv(15 * f7, 336)
         + RoundDiv(105 * f9, 3456)

\* asin of f (Fine units), 0 <= f <= Fine; above 1/2 by
\* asin(x) = pi/2 - 2 asin(sqrt((1 - x) / 2))
AsinFine(f) ==
    IF 2 * f <= Fine THEN AsinSeries(f)
    ELSE LET h == (Fine - f) * (Fine \div 2)
             r == ISqrt(h, 0, 46340)
         IN HalfPiFine - 2 * AsinSeries(r)

\* asin: NaN outside [-1, 1]
AsinValue(x) == IF ~IsFinite(x) THEN NaN
           ELSE IF x > Scale \/ x < -Scale THEN NaN
           ELSE IF x >= 0 THEN RoundDiv(AsinFine(x * (Fine \div Scale)), Fine \div Scale)
           ELSE -RoundDiv(AsinFine((-x) * (Fine \div Scale)), Fine \div Scale)


\* The values above, tabulated once (as sequences, indexed from 1) over the
\* arguments that occur most
MaxAngle == 1600
MaxRadicand == 40000

SinTable == SubSeq([i \in 1 .. 2 * MaxAngle + 1 |-> SinValue(i - MaxAngle - 1)],
                   1, 2 * MaxAngle + 1)
CosTable == SubSeq([i \in 1 .. 2 * MaxAngle + 1 |-> CosValue(i - MaxAngle - 1)],
                   1, 2 * MaxAngle + 1)
AsinTable == SubSeq([i \in 1 .. 2 * Scale + 1 |-> AsinValue(i - Scale - 1)],
                    1, 2 * Scale + 1)
SqrtTable == SubSeq([i \in 1 .. MaxRadicand + 1 |-> SqrtValue(i - 1)],
                    1, MaxRadicand + 1)

Sin(x) == IF x >= -MaxAngle /\ x <= MaxAngle THEN SinTable[x + MaxAngle + 1]
          ELSE SinValue(x)
Cos(x) == IF x >= -MaxAngle /\ x <= MaxAngle THEN CosTable[x + MaxAngle + 1]
          ELSE CosValue(x)
Asin(x) == IF x >= -Scale /\ x <= Scale THEN AsinTable[x + Scale + 1]
           ELSE AsinValue(x)
Sqrt(x) == IF x >= 0 /\ x <= MaxRadicand THEN SqrtTable[x + 1]
           ELSE SqrtValue(x)

(***************************************************************************)
(* Configuration handed to initialize()                                    *)
(***************************************************************************)

\* g
G == 10000
\* uav_mass
UavMass == 2000
\* motor_params.hover_thrust_a, motor_params.hover_thrust_b
HoverThrustA == 100
HoverThrustB == 53
\* max_tilt_angle_ (radians), thrust_saturation_
MaxTiltAngle == 2500
ThrustSaturation == 1000
\* lateral_mute_coefficitent
MuteCoefficient == 250
\* gains_filter_max_change_, gains_filter_min_change_
GainsFilterMaxChange == 500
GainsFilterMinChange == 250

\* default_gains/* of the configuration file
DefaultGains ==
    [kpxy |-> 2000, kvxy |-> 1000, kaxy |-> 1000, kiwxy |-> 1000, kibxy |-> 1000,
     kpz |-> 2000, kvz |-> 1000, kaz |-> 1000, km |-> 5000,
     kiwxy_lim |-> 2, kibxy_lim |-> 2, km_lim |-> 2]

(***************************************************************************)
(* Messages                                                                *)
(***************************************************************************)

\* mrs_msgs::AttitudeCommand behind a ConstPtr; null is the empty pointer
ZeroCommand ==
    [null |-> FALSE,
     euler_x |-> 0, euler_y |-> 0, euler_z |-> 0, thrust |-> 0,
     mass_difference |-> 0, total_mass |-> 0,
     disturbance_bx_b |-> 0, disturbance_by_b |-> 0,
     disturbance_bx_w |-> 0, disturbance_by_w |-> 0,
     disturbance_wx_w |-> 0, disturbance_wy_w |-> 0,
     controller_enforcing_constraints |-> FALSE,
     controller |-> ""]

\* mrs_msgs::AttitudeCommand::Ptr()
NullPtr == [ZeroCommand EXCEPT !.null = TRUE]

\* ConstPtr(new AttitudeCommand(value))
NewPtr(value) == [value EXCEPT !.null = FALSE]

(***************************************************************************)
(* Inputs                                                                  *)
(***************************************************************************)

\* largest header.stamp (milliseconds) of a state message
MaxStamp == 2

\* longest sequence of calls that is followed
MaxCalls == 5

Stamps == 0 .. MaxStamp

Frames == {"gps_origin", "local_origin"}

\* last commands of the previously active controller, and no command
PreviousCommands ==
    { NullPtr,
      [ZeroCommand EXCEPT !.thrust = 500, !.total_mass = 2000,
                          !.controller = "MpcController"],
      [ZeroCommand EXCEPT !.thrust = 600, !.euler_x = 100,
                          !.mass_difference = 500, !.total_mass = 2500,
                          !.disturbance_bx_b = 50, !.disturbance_wx_w = 12500,
                          !.disturbance_wy_w = 30000,
                          !.controller_enforcing_constraints = TRUE,
                          !.controller = "Se3Controller"] }

\* mrs_msgs::UavState: the fields that update() reads
UavState(frame_id, stamp, position, velocity, rpy) ==
    [frame_id |-> frame_id, stamp |-> stamp, position |-> position,
     velocity |-> velocity, rpy |-> rpy]

\* mrs_msgs::PositionCommand
Reference(position, velocity, acceleration, yaw, disable_position_gains) ==
    [position |-> position, velocity |-> velocity, acceleration |-> acceleration,
     yaw |-> yaw, disable_position_gains |-> disable_position_gains]

Zero3 == <<0, 0, 0>>

\* the state messages and references update() is called with at a given stamp:
\* a small error; the same with the position gains disabled; a large error
\* at yaw = pi/4 in another frame; a velocity error against the position error;
\* a state estimate that is not finite; an acceleration reference above g
Inputs(stamp) ==
    { <<UavState("gps_origin", stamp, <<-1000, 0, -200>>, Zero3, Zero3),
        Reference(Zero3, Zero3, Zero3, 785, FALSE)>>,
      <<UavState("gps_origin", stamp, <<-1000, 0, -200>>, Zero3, Zero3),
        Reference(Zero3, Zero3, Zero3, 785, TRUE)>>,
      <<UavState("local_origin", stamp, <<3000, 1000, 2000>>, Zero3, <<0, 0, 785>>),
        Reference(Zero3, Zero3, Zero3, 785, FALSE)>>,
      <<UavState("gps_origin", stamp, <<-1000, 0, -1000>>, <<5000, 0, 0>>, Zero3),
        Reference(Zero3, Zero3, Zero3, 785, FALSE)>>,
      <<UavState("gps_origin", stamp, <<NaN, 0, NInf>>, Zero3, Zero3),
        Reference(Zero3, Zero3, Zero3, 785, FALSE)>>,
      <<UavState("gps_origin", stamp, <<0, -1000, 0>>, Zero3, Zero3),
        Reference(Zero3, Zero3, <<20000, 0, 0>>, 785, FALSE)>> }

\* configurations sent by dynamic reconfigure
Configs ==
    { DefaultGains,
      [DefaultGains EXCEPT !.kpxy = 1000, !.kiwxy_lim = 1, !.km_lim = 1] }

\* outcomes of transformer->transformSingle() on a vector: none, or the vector
\* expressed in the target frame
Transforms == {"fail", "same", "swap"}

(***************************************************************************)
(* State                                                                   *)
(***************************************************************************)

VARIABLES
    is_active,                          \* bool is_active
    first_iteration,                    \* bool first_iteration
    uav_state_,                         \* header of the stored mrs_msgs::UavState
    uav_mass_difference,
    gains,                              \* kpxy ... km_lim, the filtered gains
    drs_desired_gains,
    last_output_command,                \* ConstPtr
    activation_control_command_,
    last_update,                        \* ros::Time, milliseconds
    mute_lateral_gains,
    mutex_lateral_gains_after_toggle,
    Ib_b,                               \* body integral <<x, y>>
    Iw_w,                               \* world integral <<x, y>>
    op,                                 \* the call that produced this state
    ret,                                \* what that call returned
    seed,                               \* argument of the last activate() that
                                        \* returned true
    calls,                              \* number of calls made so far
    threads,                            \* the calls in flight: where each is,
                                        \* who owns each mutex, their locals
    pid,                                \* a Pid object: its members
    pid_controller                      \* a PidController: its members

vars == <<is_active, first_iteration, uav_state_, uav_mass_difference, gains,
          drs_desired_gains, last_output_command, activation_control_command_,
          last_update, mute_lateral_gains, mutex_lateral_gains_after_toggle,
          Ib_b, Iw_w, op, ret, seed, calls, threads, pid, pid_controller>>

\* the entry points that run on threads of their own
Ops == {"update", "timerGainsFilter", "dynamicReconfigureCallback",
        "switchOdometrySource", "resetDisturbanceEstimators", "deactivate"}

\* std::mutex mutex_gains, mutex_desired_gains, mutex_integrals_,
\* mutex_uav_state_
Mutexes == {"mutex_gains", "mutex_desired_gains", "mutex_integrals_",
            "mutex_uav_state_"}

\* no call in flight, every mutex free
NoThreads ==
    [pc |-> [o \in Ops |-> "idle"],
     owner |-> [m \in Mutexes |-> "free"],
     update |-> [full |-> FALSE, done |-> FALSE],
     timer |-> [done |-> FALSE],
     switch |-> [done |-> FALSE]]


\* what a full tick of update() computed on its way: the control error, the
\* feedback before and after validation, the saturation flags, dt, and the
\* gains it read in each of its critical sections; what timerGainsFilter()
\* computed on its way: bypass_filter, gain_coeff and the gains it started
\* from; NoTick for other calls
NoTick == [full |-> FALSE]

\* the call record: which entry point ran, which return statement it left by,
\* the command it was handed (activate() alone takes one) and the locals of
\* the full tick (update() alone has them)
CallWith(name, branch, cmd) ==
    [name |-> name, branch |-> branch, cmd |-> cmd, tick |-> NoTick]

Call(name, branch) == CallWith(name, branch, NullPtr)

\* the returned value: the bool of activate(), the pointer of update()
Returned(ok, cmd) == [ok |-> ok, cmd |-> cmd]

(***************************************************************************)
(* class Pid: the controller of one axis                                   *)
(***************************************************************************)

\* the integral_saturation and the exp_filter_const PidController hands to
\* every Pid, the saturation of pid_z, and max_tilt_angle_ of 30 degrees in
\* radians, the saturation of pid_x and pid_y
PidIntegralSaturation == 100
PidExpFilterConst == 990
PidThrustSaturation == 1000
PidMaxTiltAngle == 524

\* Pid::Pid()
Pid(name, kp, kd, ki, integral_saturation, saturation, exp_filter_const) ==
    [name |-> name, kp |-> kp, kd |-> kd, ki |-> ki,
     integral_saturation |-> integral_saturation, saturation |-> saturation,
     exp_filter_const |-> exp_filter_const,
     integral |-> 0, last_error |-> 0]

\* no Pid object: NsfController holds none
NoPid == Pid("", 0, 0, 0, 0, 0, 0)

\* a variant of Pid::update() that integrates the error whether or not the
\* output is saturated
PidUpdateWindup(p, error, dt) ==
    LET difference == Add(Mul(p.exp_filter_const, p.last_error),
                          Mul(Sub(Scale, p.exp_filter_const),
                              Div(Sub(error, p.last_error), dt)))
        raw == Add(Add(Mul(p.kp, error), Mul(p.kd, difference)),
                   Mul(p.ki, p.integral))
        saturated == IsFinite(raw) /\ (Gt(raw, p.saturation)
                                          \/ Lt(raw, Neg(p.saturation)))
        control_output ==
            IF ~IsFinite(raw) THEN 0
            ELSE IF Gt(raw, p.saturation) THEN p.saturation
            ELSE IF Lt(raw, Neg(p.saturation)) THEN Neg(p.saturation)
            ELSE raw
        sum == Add(p.integral, error)
        integral ==
            IF ~IsFinite(sum) THEN 0
            ELSE IF Gt(sum, p.integral_saturation) THEN p.integral_saturation
            ELSE IF Lt(sum, Neg(p.integral_saturation))
                 THEN Neg(p.integral_saturation)
            ELSE sum
    IN [pid |-> [p EXCEPT !.last_error = error, !.integral = integral],
        control_output |-> control_output,
        locals |-> [full |-> FALSE, error |-> error, dt |-> dt, raw |-> raw,
                    saturated |-> saturated,
                    integrated |-> (saturated => sum # p.integral),
                    integral |-> p.integral, control_output |-> control_output]]

\* Pid::update(): the object it leaves, the value it returns and what it
\* computed on its way
PidUpdate(p, error, dt) ==
    LET difference == Add(Mul(p.exp_filter_const, p.last_error),
                          Mul(Sub(Scale, p.exp_filter_const),
                              Div(Sub(error, p.last_error), dt)))
        raw == Add(Add(Mul(p.kp, error), Mul(p.kd, difference)),
                   Mul(p.ki, p.integral))
        saturated == IsFinite(raw) /\ (Gt(raw, p.saturation)
                                          \/ Lt(raw, Neg(p.saturation)))
        control_output ==
            IF ~IsFinite(raw) THEN 0
            ELSE IF Gt(raw, p.saturation) THEN p.saturation
            ELSE IF Lt(raw, Neg(p.saturation)) THEN Neg(p.saturation)
            ELSE raw
        integrated ==
            IF saturated
            THEN (Gt(control_output, 0) /\ Lt(error, 0))
                     \/ (Lt(control_output, 0) /\ Gt(error, 0))
            ELSE TRUE
        sum == IF integrated THEN Add(p.integral, error) ELSE p.integral
        integral ==
            IF ~IsFinite(sum) THEN 0
            ELSE IF Gt(sum, p.integral_saturation) THEN p.integral_saturation
            ELSE IF Lt(sum, Neg(p.integral_saturation))
                 THEN Neg(p.integral_saturation)
            ELSE sum
    IN [pid |-> [p EXCEPT !.last_error = error, !.integral = integral],
        control_output |-> control_output,
        locals |-> [full |-> FALSE, error |-> error, dt |-> dt, raw |-> raw,
                    saturated |-> saturated, integrated |-> integrated,
                    integral |-> p.integral, control_output |-> control_output]]

(***************************************************************************)
(* class PidController: three Pids and the command it last computed        *)
(***************************************************************************)

\* hover_thrust of the configuration
PidHoverThrust == 500

\* mrs_msgs::AttitudeCommand as PidController fills it
PidCommand(pitch, roll, yaw, thrust) ==
    [null |-> FALSE, pitch |-> pitch, roll |-> roll, yaw |-> yaw,
     thrust |-> thrust]

\* the members before Initialize(); computed is not a member: it is the
\* command the most recent full update() returned
NoPidController ==
    [initialized |-> FALSE, pid_x |-> NoPid, pid_y |-> NoPid, pid_z |-> NoPid,
     hover_thrust_ |-> 0, first_iteration |-> TRUE, last_update |-> 0,
     last_output_command |-> NullPtr, computed |-> NullPtr]


\* the member initialisers and initialize(), for given default gains and given
\* gains wanted by dynamic reconfigure
InitWith(default_gains, desired_gains) ==
    /\ is_active = FALSE
    /\ first_iteration = TRUE
    /\ uav_state_ = [frame_id |-> "", stamp |-> 0]
    /\ uav_mass_difference = 0
    /\ gains = default_gains
    /\ drs_desired_gains = desired_gains
    /\ last_output_command = NullPtr
    /\ activation_control_command_ = ZeroCommand
    /\ last_update = 0
    /\ mute_lateral_gains = FALSE
    /\ mutex_lateral_gains_after_toggle = FALSE
    /\ Ib_b = <<0, 0>>
    /\ Iw_w = <<0, 0>>
    /\ op = Call("initialize", "done")
    /\ ret = Returned(TRUE, NullPtr)
    /\ seed = NullPtr
    /\ calls = 0
    /\ threads = NoThreads
    /\ pid = NoPid
    /\ pid_controller = NoPidController

Init == InitWith(DefaultGains, DefaultGains)

(***************************************************************************)
(* activate(), deactivate()                                                *)
(***************************************************************************)

\* asin(disturbance / (g_ * cmd->total_mass))
DisturbanceToIntegral(disturbance, total_mass) ==
    Asin(Div(disturbance, Mul(G, total_mass)))

\* a variant that re-arms the first iteration before it notices the missing
\* command
activate_no_command_rearmed ==
    /\ first_iteration' = TRUE
    /\ op' = CallWith("activate", "no_command", NullPtr)
    /\ ret' = Returned(FALSE, NullPtr)
    /\ UNCHANGED <<is_active, uav_state_, uav_mass_difference,
                   gains, drs_desired_gains, last_output_command,
                   activation_control_command_, last_update,
                   mute_lateral_gains, mutex_lateral_gains_after_toggle,
                   Ib_b, Iw_w, seed>>

\* activate(): the branch of a missing command
activate_no_command ==
    /\ op' = CallWith("activate", "no_command", NullPtr)
    /\ ret' = Returned(FALSE, NullPtr)
    /\ UNCHANGED <<is_active, first_iteration, uav_state_, uav_mass_difference,
                   gains, drs_desired_gains, last_output_command,
                   activation_control_command_, last_update,
                   mute_lateral_gains, mutex_lateral_gains_after_toggle,
                   Ib_b, Iw_w, seed>>

\* a variant that keeps the integrals the controller already had
activate_keeping_integrals(cmd) ==
    /\ activation_control_command_' =
           [cmd EXCEPT !.controller_enforcing_constraints = FALSE]
    /\ uav_mass_difference' = cmd.mass_difference
    /\ first_iteration' = TRUE
    /\ is_active' = TRUE
    /\ op' = CallWith("activate", "activated", cmd)
    /\ ret' = Returned(TRUE, NullPtr)
    /\ seed' = cmd
    /\ UNCHANGED <<uav_state_, gains, drs_desired_gains, last_output_command,
                   last_update, mute_lateral_gains,
                   mutex_lateral_gains_after_toggle, Ib_b, Iw_w>>

\* activate(): the branch of a command, and the statements after it
activate_with_command(cmd) ==
    /\ activation_control_command_' =
           [cmd EXCEPT !.controller_enforcing_constraints = FALSE]
    /\ uav_mass_difference' = cmd.mass_difference
    /\ Ib_b' = <<DisturbanceToIntegral(cmd.disturbance_bx_b, cmd.total_mass),
                 DisturbanceToIntegral(cmd.disturbance_by_b, cmd.total_mass)>>
    /\ Iw_w' = <<DisturbanceToIntegral(cmd.disturbance_wx_w, cmd.total_mass),
                 DisturbanceToIntegral(cmd.disturbance_wy_w, cmd.total_mass)>>
    /\ first_iteration' = TRUE
    /\ is_active' = TRUE
    /\ op' = CallWith("activate", "activated", cmd)
    /\ ret' = Returned(TRUE, NullPtr)
    /\ seed' = cmd
    /\ UNCHANGED <<uav_state_, gains, drs_desired_gains, last_output_command,
                   last_update, mute_lateral_gains,
                   mutex_lateral_gains_after_toggle>>

activate(cmd) ==
    IF cmd = NullPtr THEN activate_no_command ELSE activate_with_command(cmd)

\* a variant that also resets the disturbance estimators
deactivate_resetting ==
    /\ is_active' = FALSE
    /\ first_iteration' = FALSE
    /\ uav_mass_difference' = 0
    /\ Ib_b' = <<0, 0>>
    /\ Iw_w' = <<0, 0>>
    /\ op' = Call("deactivate", "done")
    /\ ret' = Returned(TRUE, NullPtr)
    /\ UNCHANGED <<uav_state_, gains, drs_desired_gains, last_output_command,
                   activation_control_command_, last_update, mute_lateral_gains,
                   mutex_lateral_gains_after_toggle, seed>>

deactivate ==
    /\ is_active' = FALSE
    /\ first_iteration' = FALSE
    /\ uav_mass_difference' = 0
    /\ op' = Call("deactivate", "done")
    /\ ret' = Returned(TRUE, NullPtr)
    /\ UNCHANGED <<uav_state_, gains, drs_desired_gains, last_output_command,
                   activation_control_command_, last_update, mute_lateral_gains,
                   mutex_lateral_gains_after_toggle, Ib_b, Iw_w, seed>>


(***************************************************************************)
(* update(): the pieces of the full tick                                   *)
(***************************************************************************)

\* Eigen::Rotation2D<double>(angle).toRotationMatrix() * vector_in
rotate2d(vector_in, angle) ==
    LET c == Cos(angle)
        s == Sin(angle)
    IN <<Add(Mul(c, vector_in[1]), Mul(Neg(s), vector_in[2])),
         Add(Mul(s, vector_in[1]), Mul(c, vector_in[2]))>>

\* Eigen::Vector3d(x, -y, z)
FlipY(v) == <<v[1], Neg(v[2]), v[3]>>

\* a - b on Eigen::Vector3d
VSub(a, b) == <<Sub(a[1], b[1]), Sub(a[2], b[2]), Sub(a[3], b[3])>>

\* sqrt(total_mass * g_) * motor_params_.hover_thrust_a + motor_params_.hover_thrust_b
HoverThrust(total_mass) ==
    Add(Mul(Sqrt(Mul(total_mass, G)), HoverThrustA), HoverThrustB)

\* the feed forward acceleration
FeedForward(acceleration, roll, pitch, hover_thrust) ==
    <<Asin(Div(Mul(Mul(acceleration[1], Cos(pitch)), Cos(roll)), G)),
      Asin(Div(Mul(Mul(Neg(acceleration[2]), Cos(pitch)), Cos(roll)), G)),
      Mul(acceleration[3], Div(hover_thrust, G))>>

\* a variant of feedback_w that leaves out the hover thrust
FeedbackWithoutHover(g, Ep, Ev, feed_forward, Ib_w, Iw, hover_thrust, roll, pitch) ==
    LET kp == <<g.kpxy, g.kpxy, g.kpz>>
        kv == <<g.kvxy, g.kvxy, g.kvz>>
        ka == <<g.kaxy, g.kaxy, g.kaz>>
        i_component == <<Add(Ib_w[1], Iw[1]), Add(Ib_w[2], Iw[2]), 0>>
        sum == [a \in 1 .. 3 |->
                   Add(Add(Add(Mul(kp[a], Ep[a]), Mul(kv[a], Ev[a])),
                           Mul(ka[a], feed_forward[a])),
                       i_component[a])]
        tilt == Div(Scale, Mul(Cos(roll), Cos(pitch)))
    IN <<Mul(sum[1], Scale), Mul(sum[2], Scale), Mul(sum[3], tilt)>>

\* feedback_w before validation
FeedbackW(g, Ep, Ev, feed_forward, Ib_w, Iw, hover_thrust, roll, pitch) ==
    LET kp == <<g.kpxy, g.kpxy, g.kpz>>
        kv == <<g.kvxy, g.kvxy, g.kvz>>
        ka == <<g.kaxy, g.kaxy, g.kaz>>
        i_component == <<Add(Ib_w[1], Iw[1]), Add(Ib_w[2], Iw[2]), 0>>
        h == <<0, 0, hover_thrust>>
        sum == [a \in 1 .. 3 |->
                   Add(Add(Add(Add(Mul(kp[a], Ep[a]), Mul(kv[a], Ev[a])),
                               Mul(ka[a], feed_forward[a])),
                           i_component[a]),
                       h[a])]
        tilt == Div(Scale, Mul(Cos(roll), Cos(pitch)))
    IN <<Mul(sum[1], Scale), Mul(sum[2], Scale), Mul(sum[3], tilt)>>

\* validation and saturation of feedback_w[X], feedback_w[Y]
\* a variant without the check of std::isfinite()
SaturateTiltUnchecked(value) ==
    IF Gt(value, MaxTiltAngle)
    THEN [value |-> MaxTiltAngle, saturated |-> TRUE]
    ELSE IF Lt(value, Neg(MaxTiltAngle))
         THEN [value |-> Neg(MaxTiltAngle), saturated |-> TRUE]
    ELSE [value |-> value, saturated |-> FALSE]

\* validation and saturation of feedback_w[X], feedback_w[Y]
SaturateTilt(value) ==
    IF ~IsFinite(value) THEN [value |-> 0, saturated |-> FALSE]
    ELSE IF Gt(value, MaxTiltAngle)
         THEN [value |-> MaxTiltAngle, saturated |-> TRUE]
    ELSE IF Lt(value, Neg(MaxTiltAngle))
         THEN [value |-> Neg(MaxTiltAngle), saturated |-> TRUE]
    ELSE [value |-> value, saturated |-> FALSE]

\* a variant that saturates the thrust symmetrically, as the tilts are
SaturateThrustSymmetric(value) ==
    IF ~IsFinite(value) THEN [value |-> 0, saturated |-> FALSE]
    ELSE IF Gt(value, ThrustSaturation)
         THEN [value |-> ThrustSaturation, saturated |-> TRUE]
    ELSE IF Lt(value, Neg(ThrustSaturation))
         THEN [value |-> Neg(ThrustSaturation), saturated |-> TRUE]
    ELSE [value |-> value, saturated |-> FALSE]

\* validation and saturation of feedback_w[Z]
SaturateThrust(value) ==
    IF ~IsFinite(value) THEN [value |-> 0, saturated |-> FALSE]
    ELSE IF Gt(value, ThrustSaturation)
         THEN [value |-> ThrustSaturation, saturated |-> TRUE]
    ELSE IF Lt(value, 0)
         THEN [value |-> 0, saturated |-> TRUE]
    ELSE [value |-> value, saturated |-> FALSE]

\* "saturate the world", "saturate the body", "saturate the mass estimator"
SaturateIntegral(value, limit) ==
    IF ~IsFinite(value) THEN 0
    ELSE IF Gt(value, limit) THEN limit
    ELSE IF Lt(value, Neg(limit)) THEN Neg(limit)
    ELSE value

\* integrate the world error
IntegrateWorld(g, Iw, Ep, fx, fy, dt) ==
    LET sx == IF fx.saturated /\ Sign(fx.value) = Sign(Ep[1]) THEN 0 ELSE Scale
        sy == IF fy.saturated /\ Sign(fy.value) = Sign(Ep[2]) THEN 0 ELSE Scale
        ix == Add(Iw[1], Mul(Mul(g.kiwxy, Mul(Ep[1], sx)), dt))
        iy == Add(Iw[2], Mul(Mul(g.kiwxy, Mul(Ep[2], sy)), dt))
    IN <<SaturateIntegral(ix, g.kiwxy_lim), SaturateIntegral(iy, g.kiwxy_lim)>>

\* integrate the body error
IntegrateBody(g, Ib, Ep, yaw, dt) ==
    LET Ep_body == rotate2d(<<Ep[1], Ep[2]>>, yaw)
        ix == Add(Ib[1], Mul(Mul(g.kibxy, Ep_body[1]), dt))
        iy == Add(Ib[2], Mul(Mul(g.kibxy, Ep_body[2]), dt))
    IN <<SaturateIntegral(ix, g.kibxy_lim), SaturateIntegral(iy, g.kibxy_lim)>>

\* a variant that integrates the mass difference whether or not the thrust
\* is saturated
IntegrateMassAlways(g, mass_difference, Ep, z_saturated, dt) ==
    SaturateIntegral(Add(mass_difference, Mul(Mul(g.km, Ep[3]), dt)), g.km_lim)

\* integrate the mass difference
IntegrateMass(g, mass_difference, Ep, z_saturated, dt) ==
    LET m == IF ~z_saturated
             THEN Add(mass_difference, Mul(Mul(g.km, Ep[3]), dt))
             ELSE mass_difference
    IN SaturateIntegral(m, g.km_lim)

\* g_ * total_mass * sin(integral)
IntegralToDisturbance(total_mass, integral) ==
    Mul(Mul(G, total_mass), Sin(integral))

\* everything the full tick computes from the state it starts in: the new
\* integrals, the new mass difference and the output command. The gains are
\* read in four critical sections: gf for the feedback, gw for the world
\* integral, gb for the body integral, gm for the mass difference
FullTickWith(gf, gw, gb, gm, mass_difference, Ib, Iw, uav_state, reference, dt) ==
    LET Ep == VSub(FlipY(reference.position), FlipY(uav_state.position))
        Ev == VSub(FlipY(reference.velocity), FlipY(uav_state.velocity))
        roll == uav_state.rpy[1]
        pitch == uav_state.rpy[2]
        yaw == uav_state.rpy[3]
        total_mass == Add(UavMass, mass_difference)
        hover_thrust == HoverThrust(total_mass)
        Ib_w == rotate2d(Ib, Neg(yaw))
        feed_forward == FeedForward(reference.acceleration, roll, pitch, hover_thrust)
        raw == FeedbackW(gf, Ep, Ev, feed_forward, Ib_w, Iw, hover_thrust, roll, pitch)
        fx == SaturateTilt(raw[1])
        fy == SaturateTilt(raw[2])
        fz == SaturateThrust(raw[3])
        Iw2 == IntegrateWorld(gw, Iw, Ep, fx, fy, dt)
        Ib2 == IntegrateBody(gb, Ib, Ep, yaw, dt)
        m2 == IntegrateMass(gm, mass_difference, Ep, fz.saturated, dt)
        feedback_b == rotate2d(<<fx.value, fy.value>>, yaw)
    IN [Iw |-> Iw2, Ib |-> Ib2, mass_difference |-> m2,
        locals |-> [full |-> TRUE, Ep |-> Ep, Ev |-> Ev,
                    feed_forward |-> feed_forward, raw |-> raw, dt |-> dt,
                    roll |-> roll, pitch |-> pitch, yaw |-> yaw,
                    saturated |-> <<fx.saturated, fy.saturated, fz.saturated>>,
                    feedback_w |-> <<fx.value, fy.value, fz.value>>,
                    kp |-> gf, kiw |-> gw, kib |-> gb, km |-> gm],
        cmd |-> [null |-> FALSE,
                 euler_x |-> feedback_b[2],
                 euler_y |-> feedback_b[1],
                 euler_z |-> reference.yaw,
                 thrust |-> fz.value,
                 mass_difference |-> m2,
                 total_mass |-> total_mass,
                 disturbance_bx_b |-> IntegralToDisturbance(total_mass, Ib2[1]),
                 disturbance_by_b |-> IntegralToDisturbance(total_mass, Ib2[2]),
                 disturbance_bx_w |-> IntegralToDisturbance(total_mass, Ib_w[1]),
                 disturbance_by_w |-> IntegralToDisturbance(total_mass, Ib_w[2]),
                 disturbance_wx_w |-> IntegralToDisturbance(total_mass, Iw2[1]),
                 disturbance_wy_w |-> IntegralToDisturbance(total_mass, Iw2[2]),
                 controller_enforcing_constraints |-> FALSE,
                 controller |-> "NsfController"]]

\* the full tick when no gain changes while it runs
FullTick(g, mass_difference, Ib, Iw, uav_state, reference, dt) ==
    FullTickWith(g, g, g, g, mass_difference, Ib, Iw, uav_state, reference, dt)


(***************************************************************************)
(* update()                                                                *)
(***************************************************************************)

\* fabs(dt) <= 0.001
TooClose(dt) == Le(Abs(dt), 1)

\* a variant that returns only after the time of the message is recorded
update_not_active_stamped ==
    /\ last_update' = uav_state_'.stamp
    /\ op' = Call("update", "not_active")
    /\ ret' = Returned(TRUE, NullPtr)
    /\ UNCHANGED <<first_iteration, uav_mass_difference, last_output_command,
                   mute_lateral_gains, mutex_lateral_gains_after_toggle,
                   Ib_b, Iw_w>>

\* update() of a controller that is not active
update_not_active ==
    /\ op' = Call("update", "not_active")
    /\ ret' = Returned(TRUE, NullPtr)
    /\ UNCHANGED <<first_iteration, uav_mass_difference, last_output_command,
                   last_update, mute_lateral_gains,
                   mutex_lateral_gains_after_toggle, Ib_b, Iw_w>>

\* a variant that forgets to record the time of the first iteration
update_first_iteration_unstamped(uav_state) ==
    /\ first_iteration' = FALSE
    /\ op' = Call("update", "first_iteration")
    /\ ret' = Returned(TRUE, NewPtr(activation_control_command_))
    /\ UNCHANGED <<uav_mass_difference, last_output_command, last_update,
                   mute_lateral_gains, mutex_lateral_gains_after_toggle,
                   Ib_b, Iw_w>>

\* update(): the first iteration after activate()
update_first_iteration(uav_state) ==
    /\ last_update' = uav_state.stamp
    /\ first_iteration' = FALSE
    /\ op' = Call("update", "first_iteration")
    /\ ret' = Returned(TRUE, NewPtr(activation_control_command_))
    /\ UNCHANGED <<uav_mass_difference, last_output_command,
                   mute_lateral_gains, mutex_lateral_gains_after_toggle,
                   Ib_b, Iw_w>>

\* update(): the state message came too close to the last one
update_too_close(uav_state) ==
    /\ last_update' = uav_state.stamp
    /\ op' = Call("update", "too_close")
    /\ ret' = Returned(TRUE, IF last_output_command # NullPtr
                             THEN last_output_command
                             ELSE NewPtr(activation_control_command_))
    /\ UNCHANGED <<first_iteration, uav_mass_difference, last_output_command,
                   mute_lateral_gains, mutex_lateral_gains_after_toggle,
                   Ib_b, Iw_w>>

\* update(): the full tick
update_full(uav_state, reference, dt) ==
    \E t \in {FullTick(gains, uav_mass_difference, Ib_b, Iw_w,
                       uav_state, reference, dt)} :
        /\ last_update' = uav_state.stamp
        /\ mutex_lateral_gains_after_toggle' =
               IF mute_lateral_gains /\ ~reference.disable_position_gains
               THEN TRUE ELSE mutex_lateral_gains_after_toggle
        /\ mute_lateral_gains' = reference.disable_position_gains
        /\ Iw_w' = t.Iw
        /\ Ib_b' = t.Ib
        /\ uav_mass_difference' = t.mass_difference
        /\ last_output_command' = t.cmd
        /\ op' = [Call("update", "full") EXCEPT !.tick = t.locals]
        /\ ret' = Returned(TRUE, t.cmd)
        /\ UNCHANGED first_iteration

update(uav_state, reference) ==
    LET dt == uav_state.stamp - last_update IN
    /\ uav_state_' = [frame_id |-> uav_state.frame_id, stamp |-> uav_state.stamp]
    /\ UNCHANGED <<is_active, gains, drs_desired_gains,
                   activation_control_command_, seed>>
    /\ IF ~is_active THEN update_not_active
       ELSE IF first_iteration THEN update_first_iteration(uav_state)
       ELSE IF TooClose(dt) THEN update_too_close(uav_state)
       ELSE update_full(uav_state, reference, dt)

(***************************************************************************)
(* switchOdometrySource(), resetDisturbanceEstimators()                    *)
(***************************************************************************)

\* res.value().vector of transformSingle() when it has a value
Transformed(how, vector) ==
    IF how = "swap" THEN <<vector[2], vector[1]>> ELSE vector

\* a variant that keeps the world integral when the transformation fails
switchOdometrySourceKeeping(msg_frame_id, how) ==
    /\ \/ how = "fail"
       \/ how = "same" /\ msg_frame_id = uav_state_.frame_id
       \/ how = "swap" /\ msg_frame_id # uav_state_.frame_id
    /\ Iw_w' = Transformed(how, Iw_w)
    /\ op' = Call("switchOdometrySource", how)
    /\ ret' = Returned(TRUE, NullPtr)
    /\ UNCHANGED <<is_active, first_iteration, uav_state_, uav_mass_difference,
                   gains, drs_desired_gains, last_output_command,
                   activation_control_command_, last_update, mute_lateral_gains,
                   mutex_lateral_gains_after_toggle, Ib_b, seed>>

switchOdometrySource(msg_frame_id, how) ==
    /\ \/ how = "fail"
       \/ how = "same" /\ msg_frame_id = uav_state_.frame_id
       \/ how = "swap" /\ msg_frame_id # uav_state_.frame_id
    /\ Iw_w' = IF how # "fail" THEN Transformed(how, Iw_w) ELSE <<0, 0>>
    /\ op' = Call("switchOdometrySource", how)
    /\ ret' = Returned(TRUE, NullPtr)
    /\ UNCHANGED <<is_active, first_iteration, uav_state_, uav_mass_difference,
                   gains, drs_desired_gains, last_output_command,
                   activation_control_command_, last_update, mute_lateral_gains,
                   mutex_lateral_gains_after_toggle, Ib_b, seed>>

resetDisturbanceEstimators ==
    /\ Iw_w' = <<0, 0>>
    /\ Ib_b' = <<0, 0>>
    /\ op' = Call("resetDisturbanceEstimators", "done")
    /\ ret' = Returned(TRUE, NullPtr)
    /\ UNCHANGED <<is_active, first_iteration, uav_state_, uav_mass_difference,
                   gains, drs_desired_gains, last_output_command,
                   activation_control_command_, last_update, mute_lateral_gains,
                   mutex_lateral_gains_after_toggle, seed>>

(***************************************************************************)
(* dynamicReconfigureCallback(), timerGainsFilter()                        *)
(***************************************************************************)

dynamicReconfigureCallback(config) ==
    /\ drs_desired_gains' = config
    /\ op' = Call("dynamicReconfigureCallback", "done")
    /\ ret' = Returned(TRUE, NullPtr)
    /\ UNCHANGED <<is_active, first_iteration, uav_state_, uav_mass_difference,
                   gains, last_output_command, activation_control_command_,
                   last_update, mute_lateral_gains,
                   mutex_lateral_gains_after_toggle, Ib_b, Iw_w, seed>>

\* fabs(current_value) < 1e-6: 1e-6 lies between 0 and the smallest positive
\* value of the representation
NearZero(current_value) == Le(Abs(current_value), 0)

\* a variant whose step near zero is gains_filter_max_change_ itself, not that
\* fraction of the change
calculateGainChangeAbsoluteStep(current_value, desired_value, bypass_rate) ==
    LET change == Sub(desired_value, current_value)
        change_in_perc == Sub(Div(Add(current_value, change), current_value), Scale)
        saturated_change ==
            IF Gt(change_in_perc, GainsFilterMaxChange)
            THEN Mul(current_value, GainsFilterMaxChange)
            ELSE IF Lt(change_in_perc, Neg(GainsFilterMaxChange))
            THEN Mul(current_value, Neg(GainsFilterMaxChange))
            ELSE change
        limited ==
            IF bypass_rate THEN change
            ELSE IF NearZero(current_value)
            THEN GainsFilterMaxChange
            ELSE IF Lt(Abs(saturated_change), Mul(Abs(change), GainsFilterMinChange))
            THEN Mul(change, GainsFilterMinChange)
            ELSE saturated_change
    IN Add(current_value, limited)

\* a variant that moves a current value near zero away from the desired value
calculateGainChangeAway(current_value, desired_value, bypass_rate) ==
    LET change == Sub(desired_value, current_value)
        change_in_perc == Sub(Div(Add(current_value, change), current_value), Scale)
        saturated_change ==
            IF Gt(change_in_perc, GainsFilterMaxChange)
            THEN Mul(current_value, GainsFilterMaxChange)
            ELSE IF Lt(change_in_perc, Neg(GainsFilterMaxChange))
            THEN Mul(current_value, Neg(GainsFilterMaxChange))
            ELSE change
        limited ==
            IF bypass_rate THEN change
            ELSE IF NearZero(current_value)
            THEN Mul(change, Neg(GainsFilterMaxChange))
            ELSE IF Lt(Abs(saturated_change), Mul(Abs(change), GainsFilterMinChange))
            THEN Mul(change, GainsFilterMinChange)
            ELSE saturated_change
    IN Add(current_value, limited)

\* a variant without the fallback to the minimal change
calculateGainChangeNoFallback(current_value, desired_value, bypass_rate) ==
    LET change == Sub(desired_value, current_value)
        change_in_perc == Sub(Div(Add(current_value, change), current_value), Scale)
        saturated_change ==
            IF Gt(change_in_perc, GainsFilterMaxChange)
            THEN Mul(current_value, GainsFilterMaxChange)
            ELSE IF Lt(change_in_perc, Neg(GainsFilterMaxChange))
            THEN Mul(current_value, Neg(GainsFilterMaxChange))
            ELSE change
        limited ==
            IF bypass_rate THEN change
            ELSE IF NearZero(current_value)
            THEN Mul(change, GainsFilterMaxChange)
            ELSE saturated_change
    IN Add(current_value, limited)

\* a variant with the signs of the two saturated changes swapped
calculateGainChangeSwapped(current_value, desired_value, bypass_rate) ==
    LET change == Sub(desired_value, current_value)
        change_in_perc == Sub(Div(Add(current_value, change), current_value), Scale)
        saturated_change ==
            IF Gt(change_in_perc, GainsFilterMaxChange)
            THEN Mul(current_value, Neg(GainsFilterMaxChange))
            ELSE IF Lt(change_in_perc, Neg(GainsFilterMaxChange))
            THEN Mul(current_value, GainsFilterMaxChange)
            ELSE change
        limited ==
            IF bypass_rate THEN change
            ELSE IF NearZero(current_value)
            THEN Mul(change, GainsFilterMaxChange)
            ELSE IF Lt(Abs(saturated_change), Mul(Abs(change), GainsFilterMinChange))
            THEN Mul(change, GainsFilterMinChange)
            ELSE saturated_change
    IN Add(current_value, limited)

calculateGainChange(current_value, desired_value, bypass_rate) ==
    LET change == Sub(desired_value, current_value)
        change_in_perc == Sub(Div(Add(current_value, change), current_value), Scale)
        saturated_change ==
            IF Gt(change_in_perc, GainsFilterMaxChange)
            THEN Mul(current_value, GainsFilterMaxChange)
            ELSE IF Lt(change_in_perc, Neg(GainsFilterMaxChange))
            THEN Mul(current_value, Neg(GainsFilterMaxChange))
            ELSE change
        limited ==
            IF bypass_rate THEN change
            ELSE IF NearZero(current_value)
            THEN Mul(change, GainsFilterMaxChange)
            ELSE IF Lt(Abs(saturated_change), Mul(Abs(change), GainsFilterMinChange))
            THEN Mul(change, GainsFilterMinChange)
            ELSE saturated_change
    IN Add(current_value, limited)

\* a variant that bypasses the rate only after the toggle, not while the
\* lateral gains are muted
FilteredGainsSmoothMute(g, d, mute, after_toggle) ==
    LET gain_coeff == IF mute THEN MuteCoefficient ELSE Scale
        bypass_filter == after_toggle
    IN [kpxy  |-> calculateGainChange(g.kpxy, Mul(d.kpxy, gain_coeff), bypass_filter),
        kvxy  |-> calculateGainChange(g.kvxy, Mul(d.kvxy, gain_coeff), bypass_filter),
        kaxy  |-> calculateGainChange(g.kaxy, Mul(d.kaxy, gain_coeff), bypass_filter),
        kiwxy |-> calculateGainChange(g.kiwxy, Mul(d.kiwxy, gain_coeff), bypass_filter),
        kibxy |-> calculateGainChange(g.kibxy, Mul(d.kibxy, gain_coeff), bypass_filter),
        kpz   |-> calculateGainChange(g.kpz, d.kpz, FALSE),
        kvz   |-> calculateGainChange(g.kvz, d.kvz, FALSE),
        kaz   |-> calculateGainChange(g.kaz, d.kaz, FALSE),
        km    |-> calculateGainChange(g.km, d.km, FALSE),
        kiwxy_lim |-> calculateGainChange(g.kiwxy_lim, d.kiwxy_lim, FALSE),
        kibxy_lim |-> calculateGainChange(g.kibxy_lim, d.kibxy_lim, FALSE),
        km_lim    |-> calculateGainChange(g.km_lim, d.km_lim, FALSE)]

\* the gains after one run of the filter
FilteredGains(g, d, mute, after_toggle) ==
    LET gain_coeff == IF mute THEN MuteCoefficient ELSE Scale
        bypass_filter == mute \/ after_toggle
    IN [kpxy  |-> calculateGainChange(g.kpxy, Mul(d.kpxy, gain_coeff), bypass_filter),
        kvxy  |-> calculateGainChange(g.kvxy, Mul(d.kvxy, gain_coeff), bypass_filter),
        kaxy  |-> calculateGainChange(g.kaxy, Mul(d.kaxy, gain_coeff), bypass_filter),
        kiwxy |-> calculateGainChange(g.kiwxy, Mul(d.kiwxy, gain_coeff), bypass_filter),
        kibxy |-> calculateGainChange(g.kibxy, Mul(d.kibxy, gain_coeff), bypass_filter),
        kpz   |-> calculateGainChange(g.kpz, d.kpz, FALSE),
        kvz   |-> calculateGainChange(g.kvz, d.kvz, FALSE),
        kaz   |-> calculateGainChange(g.kaz, d.kaz, FALSE),
        km    |-> calculateGainChange(g.km, d.km, FALSE),
        kiwxy_lim |-> calculateGainChange(g.kiwxy_lim, d.kiwxy_lim, FALSE),
        kibxy_lim |-> calculateGainChange(g.kibxy_lim, d.kibxy_lim, FALSE),
        km_lim    |-> calculateGainChange(g.km_lim, d.km_lim, FALSE)]

\* a variant that leaves mutex_lateral_gains_after_toggle set
timerGainsFilterKeepingToggle ==
    /\ gains' = FilteredGains(gains, drs_desired_gains, mute_lateral_gains,
                              mutex_lateral_gains_after_toggle)
    /\ op' = [Call("timerGainsFilter", "done") EXCEPT
                 !.tick = [full |-> FALSE,
                           bypass_filter |-> mute_lateral_gains
                                                 \/ mutex_lateral_gains_after_toggle,
                           gain_coeff |-> IF mute_lateral_gains
                                          THEN MuteCoefficient ELSE Scale,
                           current |-> gains]]
    /\ ret' = Returned(TRUE, NullPtr)
    /\ UNCHANGED <<is_active, first_iteration, uav_state_, uav_mass_difference,
                   drs_desired_gains, last_output_command,
                   activation_control_command_, last_update, mute_lateral_gains,
                   mutex_lateral_gains_after_toggle, Ib_b, Iw_w, seed>>

timerGainsFilter ==
    /\ mutex_lateral_gains_after_toggle' = FALSE
    /\ gains' = FilteredGains(gains, drs_desired_gains, mute_lateral_gains,
                              mutex_lateral_gains_after_toggle)
    /\ op' = [Call("timerGainsFilter", "done") EXCEPT
                 !.tick = [full |-> FALSE,
                           bypass_filter |-> mute_lateral_gains
                                                 \/ mutex_lateral_gains_after_toggle,
                           gain_coeff |-> IF mute_lateral_gains
                                          THEN MuteCoefficient ELSE Scale,
                           current |-> gains]]
    /\ ret' = Returned(TRUE, NullPtr)
    /\ UNCHANGED <<is_active, first_iteration, uav_state_, uav_mass_difference,
                   drs_desired_gains, last_output_command,
                   activation_control_command_, last_update, mute_lateral_gains,
                   Ib_b, Iw_w, seed>>

(***************************************************************************)
(* The controller: every entry point may be called at any time             *)
(***************************************************************************)

\* one more call, while the sequence of calls is short enough
Called(entry) ==
    /\ calls < MaxCalls
    /\ calls' = calls + 1
    /\ UNCHANGED <<threads, pid, pid_controller>>
    /\ entry

Next ==
    \/ \E cmd \in PreviousCommands : Called(activate(cmd))
    \/ Called(deactivate)
    \/ \E stamp \in Stamps : \E in \in Inputs(stamp) : Called(update(in[1], in[2]))
    \/ \E frame_id \in Frames, how \in Transforms :
           Called(switchOdometrySource(frame_id, how))
    \/ Called(resetDisturbanceEstimators)
    \/ \E config \in Configs : Called(dynamicReconfigureCallback(config))
    \/ Called(timerGainsFilter)

Spec == Init /\ [][Next]_vars

(***************************************************************************)
(* The controller with its two threads: timerGainsFilter() may run while     *)
(* update() is between two of its critical sections on mutex_gains           *)
(***************************************************************************)

\* the places of the full tick where mutex_gains is free: after the gains of
\* the feedback are read (1), after the world integral (2), after the body
\* integral (3); 0 stands for a tick the timer does not interrupt
Preemptions == 0 .. 3

\* the full tick of update() with one run of timerGainsFilter() at the given
\* place: the run sees the mute flags the tick has just written, and the
\* critical sections after it read the gains it leaves
update_full_preempted(uav_state, reference, dt, at) ==
    \E after_toggle \in {IF mute_lateral_gains /\ ~reference.disable_position_gains
                         THEN TRUE ELSE mutex_lateral_gains_after_toggle} :
    \E filtered \in {IF at = 0 THEN gains
                     ELSE FilteredGains(gains, drs_desired_gains,
                                        reference.disable_position_gains,
                                        after_toggle)} :
    \E gw \in {IF at <= 1 THEN filtered ELSE gains} :
    \E gb \in {IF at <= 2 THEN filtered ELSE gains} :
    \E t \in {FullTickWith(gains, gw, gb, filtered,
                           uav_mass_difference, Ib_b, Iw_w,
                           uav_state, reference, dt)} :
        /\ last_update' = uav_state.stamp
        /\ mute_lateral_gains' = reference.disable_position_gains
        /\ mutex_lateral_gains_after_toggle' =
               IF at = 0 THEN after_toggle ELSE FALSE
        /\ gains' = filtered
        /\ Iw_w' = t.Iw
        /\ Ib_b' = t.Ib
        /\ uav_mass_difference' = t.mass_difference
        /\ last_output_command' = t.cmd
        /\ op' = [Call("update", "full") EXCEPT !.tick = t.locals]
        /\ ret' = Returned(TRUE, t.cmd)
        /\ UNCHANGED first_iteration

\* update() when the timer may interrupt its full tick; the branches that
\* return early hold no lock the timer waits for
update_preemptible(uav_state, reference, at) ==
    LET dt == uav_state.stamp - last_update IN
    /\ uav_state_' = [frame_id |-> uav_state.frame_id, stamp |-> uav_state.stamp]
    /\ UNCHANGED <<is_active, drs_desired_gains,
                   activation_control_command_, seed>>
    /\ IF ~is_active THEN at = 0 /\ UNCHANGED gains /\ update_not_active
       ELSE IF first_iteration
            THEN at = 0 /\ UNCHANGED gains /\ update_first_iteration(uav_state)
       ELSE IF TooClose(dt)
            THEN at = 0 /\ UNCHANGED gains /\ update_too_close(uav_state)
       ELSE update_full_preempted(uav_state, reference, dt, at)

\* as many more calls as the entry stands for
CalledTimes(times, entry) ==
    /\ calls + times <= MaxCalls
    /\ calls' = calls + times
    /\ UNCHANGED <<threads, pid, pid_controller>>
    /\ entry

NextConcurrent ==
    \/ \E cmd \in PreviousCommands : Called(activate(cmd))
    \/ Called(deactivate)
    \/ \E stamp \in Stamps : \E in \in Inputs(stamp) : \E at \in Preemptions :
           CalledTimes(IF at = 0 THEN 1 ELSE 2,
                       update_preemptible(in[1], in[2], at))
    \/ \E config \in Configs : Called(dynamicReconfigureCallback(config))
    \/ Called(timerGainsFilter)

SpecConcurrent == Init /\ [][NextConcurrent]_vars

(***************************************************************************)
(* The gains filter alone: timerGainsFilter() run again and again from      *)
(* given gains towards given desired gains                                  *)
(***************************************************************************)

\* values a gain starts from and is wanted at
GainValues == {-3000, -1000, -2, -1, 0, 1, 2, 400, 1000, 1600, 3000}

\* a set of gains with every gain at one value
EveryGain(value) == [name \in DOMAIN DefaultGains |-> value]

InitGain ==
    \E current_value, desired_value \in GainValues :
        InitWith(EveryGain(current_value), EveryGain(desired_value))

NextGain == Called(timerGainsFilter)

SpecGain == InitGain /\ [][NextGain]_vars

(***************************************************************************)
(* The muting of the lateral gains: the calls that take part in it, followed *)
(* one call further                                                          *)
(***************************************************************************)

\* longest sequence of calls that is followed while the gains are muted
MaxMuteCalls == 6

\* the state message with the small error, with the position gains of the
\* reference enabled and disabled
MuteInputs(stamp) ==
    {in \in Inputs(stamp) : in[1].position = <<-1000, 0, -200>>}

CalledMute(entry) ==
    /\ calls < MaxMuteCalls
    /\ calls' = calls + 1
    /\ UNCHANGED <<threads, pid, pid_controller>>
    /\ entry

NextMute ==
    \/ \E cmd \in PreviousCommands : CalledMute(activate(cmd))
    \/ \E stamp \in Stamps : \E in \in MuteInputs(stamp) :
           CalledMute(update(in[1], in[2]))
    \/ \E config \in Configs : CalledMute(dynamicReconfigureCallback(config))
    \/ CalledMute(timerGainsFilter)

SpecMute == Init /\ [][NextMute]_vars

(***************************************************************************)
(* The feedback of the full tick: state messages at level attitude and     *)
(* tilted, within the saturation and beyond it, under gains with and       *)
(* without the feed forward                                                *)
(***************************************************************************)

\* a position error of 1 m along x at rest; errors of position and velocity
\* with a reference acceleration at yaw = pi/4; the first at a roll of
\* 0.1 rad; an error that saturates the tilt
FeedbackInputs(stamp) ==
    { <<UavState("gps_origin", stamp, <<-1000, 0, 0>>, Zero3, Zero3),
        Reference(Zero3, Zero3, Zero3, 0, FALSE)>>,
      <<UavState("gps_origin", stamp, <<-500, 200, -100>>, <<100, 0, 0>>, <<0, 0, 785>>),
        Reference(Zero3, Zero3, <<1000, 0, 0>>, 785, FALSE)>>,
      <<UavState("gps_origin", stamp, <<-1000, 0, 0>>, Zero3, <<100, 0, 0>>),
        Reference(Zero3, Zero3, Zero3, 0, FALSE)>>,
      <<UavState("gps_origin", stamp, <<3000, 0, 0>>, Zero3, Zero3),
        Reference(Zero3, Zero3, Zero3, 0, FALSE)>> }

\* default_gains/* as configured, and with the feed forward gains at zero
FeedbackGains ==
    { DefaultGains, [DefaultGains EXCEPT !.kaxy = 0, !.kaz = 0] }

InitFeedback == \E g \in FeedbackGains : InitWith(g, g)

NextFeedback ==
    \/ \E cmd \in PreviousCommands : Called(activate(cmd))
    \/ \E stamp \in Stamps : \E in \in FeedbackInputs(stamp) :
           Called(update(in[1], in[2]))
    \/ Called(resetDisturbanceEstimators)
    \/ \E config \in Configs : Called(dynamicReconfigureCallback(config))
    \/ Called(timerGainsFilter)

SpecFeedback == InitFeedback /\ [][NextFeedback]_vars

(***************************************************************************)
(* The threads: every entry point runs on a thread of its own and takes    *)
(* the mutexes of its critical sections one section at a time              *)
(***************************************************************************)

\* the members and the records of the last call, which a step that only
\* takes a mutex leaves alone
members == <<is_active, first_iteration, uav_state_, uav_mass_difference, gains,
             drs_desired_gains, last_output_command,
             activation_control_command_, last_update, mute_lateral_gains,
             mutex_lateral_gains_after_toggle, Ib_b, Iw_w, op, ret, seed>>

\* the mutexes can be locked
Free(mutexes) == \A m \in mutexes : threads.owner[m] = "free"

\* std::scoped_lock lock(...): every mutex named is taken by the caller, all
\* of them or none (std::lock)
Lock(t, o, mutexes) ==
    [t EXCEPT !.owner = [m \in Mutexes |-> IF m \in mutexes THEN o ELSE @[m]]]

\* a variant of the end of a scope that keeps the mutexes locked
UnlockNothing(t, o) == t

\* the end of the scope of a std::scoped_lock: the caller's mutexes are free
Unlock(t, o) ==
    [t EXCEPT !.owner = [m \in Mutexes |-> IF @[m] = o THEN "free" ELSE @[m]]]

\* the caller goes on to the given place
At(t, o, stage) == [t EXCEPT !.pc[o] = stage]

\* the full tick in flight, between its first and its last statement
InFullTick == threads.pc["update"] # "idle" /\ threads.update.full

\* another call has taken effect while the full tick is in flight
During(t, o) ==
    IF InFullTick THEN [t EXCEPT !.update.during = @ \cup {o}] ELSE t

\* a call starts, while the sequence of calls is short enough
Started(o, mutexes) ==
    /\ calls < MaxCalls
    /\ calls' = calls + 1
    /\ UNCHANGED <<pid, pid_controller>>
    /\ threads.pc[o] = "idle"
    /\ Free(mutexes)

\* the state messages and references of the calls that run on threads
ThreadInputs(stamp) ==
    {in \in Inputs(stamp) : in[1].position \in {<<-1000, 0, -200>>,
                                                <<0, -1000, 0>>}
                            /\ ~in[2].disable_position_gains}

\* activate(), called while the controller is not active and nothing runs
thread_activate(cmd) ==
    /\ calls < MaxCalls
    /\ calls' = calls + 1
    /\ ~is_active
    /\ \A o \in Ops : threads.pc[o] = "idle"
    /\ activate(cmd)
    /\ UNCHANGED <<threads, pid, pid_controller>>

\* deactivate(): takes no mutex
thread_deactivate ==
    /\ Started("deactivate", {})
    /\ deactivate
    /\ threads' = During(threads, "deactivate")

\* update(): std::scoped_lock lock(mutex_uav_state_)
update_lock_uav_state(uav_state, reference) ==
    /\ Started("update", {"mutex_uav_state_"})
    /\ threads' = [Lock(At(threads, "update", "uav_state"), "update",
                        {"mutex_uav_state_"})
                   EXCEPT !.update = [full |-> FALSE, done |-> FALSE,
                                      uav_state |-> uav_state,
                                      reference |-> reference]]
    /\ UNCHANGED members

\* update(): from uav_state_ = *uav_state to the first use of the gains; the
\* early returns end the call
update_store ==
    LET uav_state == threads.update.uav_state
        reference == threads.update.reference
        dt == uav_state.stamp - last_update
        returned == Unlock(At(threads, "update", "idle"), "update")
    IN
    /\ threads.pc["update"] = "uav_state"
    /\ uav_state_' = [frame_id |-> uav_state.frame_id, stamp |-> uav_state.stamp]
    /\ UNCHANGED <<is_active, gains, drs_desired_gains,
                   activation_control_command_, seed, calls, pid, pid_controller>>
    /\ IF ~is_active THEN update_not_active /\ threads' = returned
       ELSE IF first_iteration
            THEN update_first_iteration(uav_state) /\ threads' = returned
       ELSE IF TooClose(dt)
            THEN update_too_close(uav_state) /\ threads' = returned
       ELSE /\ last_update' = uav_state.stamp
            /\ mutex_lateral_gains_after_toggle' =
                   IF mute_lateral_gains /\ ~reference.disable_position_gains
                   THEN TRUE ELSE mutex_lateral_gains_after_toggle
            /\ mute_lateral_gains' = reference.disable_position_gains
            /\ threads' =
                   [Unlock(At(threads, "update", "kp"), "update")
                    EXCEPT !.update =
                        [full |-> TRUE, done |-> FALSE, during |-> {},
                         uav_state |-> uav_state, reference |-> reference,
                         dt |-> dt,
                         mass_difference |-> uav_mass_difference,
                         Ib |-> Ib_b,
                         kp |-> gains, gw |-> gains, gb |-> gains, gm |-> gains,
                         locals |-> NoTick, cmd |-> NullPtr,
                         after |-> NoTick]]
            /\ UNCHANGED <<first_iteration, uav_mass_difference,
                           last_output_command, Ib_b, Iw_w, op, ret>>

\* the mutexes of the std::scoped_lock a call in flight has come to
Wanted(o) ==
    LET pc == threads.pc[o] IN
    IF o = "update" /\ pc \in {"kp", "body", "mass"} THEN {"mutex_gains"}
    ELSE IF o = "update" /\ pc \in {"i_component", "report"}
         THEN {"mutex_integrals_"}
    ELSE IF o = "update" /\ pc = "world" THEN {"mutex_gains", "mutex_integrals_"}
    ELSE IF o = "timerGainsFilter" /\ pc = "flags"
         THEN {"mutex_gains", "mutex_desired_gains"}
    ELSE IF o = "switchOdometrySource" /\ pc = "transformed"
         THEN {"mutex_integrals_"}
    ELSE {}

\* a step of a call in flight that only takes the mutexes of its next scope
Locks(o, from, to) ==
    /\ threads.pc[o] = from
    /\ Free(Wanted(o))
    /\ threads' = Lock(At(threads, o, to), o, Wanted(o))
    /\ UNCHANGED <<members, calls, pid, pid_controller>>

\* update(): kp, kv, ka are read under mutex_gains
update_read_gains ==
    /\ threads.pc["update"] = "kp_locked"
    /\ threads' = [Unlock(At(threads, "update", "i_component"), "update")
                   EXCEPT !.update.kp = gains]
    /\ UNCHANGED <<members, calls, pid, pid_controller>>

\* update(): i_component is read under mutex_integrals_, then the feedback is
\* calculated, validated and saturated
update_feedback ==
    /\ threads.pc["update"] = "i_component_locked"
    /\ \E u \in {threads.update} :
       \E t \in {FullTickWith(u.kp, gains, gains, gains, u.mass_difference,
                              u.Ib, Iw_w, u.uav_state, u.reference, u.dt)} :
          threads' = [Unlock(At(threads, "update", "world"), "update")
                      EXCEPT !.update.locals = t.locals,
                             !.update.cmd = t.cmd]
    /\ UNCHANGED <<members, calls, pid, pid_controller>>

\* the saturated feedback of an axis, as IntegrateWorld() takes it
Axis(locals, i) ==
    [value |-> locals.feedback_w[i], saturated |-> locals.saturated[i]]

\* update(): the world integral, under mutex_gains and mutex_integrals_
update_world_integral ==
    /\ threads.pc["update"] = "world_locked"
    /\ \E u \in {threads.update} :
       \E I \in {IntegrateWorld(gains, Iw_w, u.locals.Ep, Axis(u.locals, 1),
                                Axis(u.locals, 2), u.dt)} :
          /\ Iw_w' = I
          /\ threads' =
                 [Unlock(At(threads, "update", "body"), "update")
                  EXCEPT !.update.gw = gains,
                         !.switch = IF threads.pc["switchOdometrySource"] = "idle"
                                    THEN @
                                    ELSE [@ EXCEPT !.ticks = Append(@, [u EXCEPT !.gw = gains])]]
    /\ UNCHANGED <<is_active, first_iteration, uav_state_, uav_mass_difference,
                   gains, drs_desired_gains, last_output_command,
                   activation_control_command_, last_update, mute_lateral_gains,
                   mutex_lateral_gains_after_toggle, Ib_b, op, ret, seed, calls, pid, pid_controller>>

\* update(): Ib_b += ... under mutex_gains alone: the left side is read
update_lock_body ==
    /\ threads.pc["update"] = "body"
    /\ Free(Wanted("update"))
    /\ threads' = [Lock(At(threads, "update", "body_locked"), "update",
                        Wanted("update"))
                   EXCEPT !.update.Ib = Ib_b]
    /\ UNCHANGED <<members, calls, pid, pid_controller>>

\* update(): Ib_b += ... under mutex_gains alone: the sum is written and
\* saturated
update_body_integral ==
    /\ threads.pc["update"] = "body_locked"
    /\ \E u \in {threads.update} :
          Ib_b' = IntegrateBody(gains, u.Ib, u.locals.Ep, u.locals.yaw, u.dt)
    /\ threads' = [Unlock(At(threads, "update", "mass"), "update")
                   EXCEPT !.update.gb = gains]
    /\ UNCHANGED <<is_active, first_iteration, uav_state_, uav_mass_difference,
                   gains, drs_desired_gains, last_output_command,
                   activation_control_command_, last_update, mute_lateral_gains,
                   mutex_lateral_gains_after_toggle, Iw_w, op, ret, seed, calls, pid, pid_controller>>

\* update(): the mass difference, under mutex_gains
update_mass ==
    /\ threads.pc["update"] = "mass_locked"
    /\ \E u \in {threads.update} :
          uav_mass_difference' =
              IntegrateMass(gains, uav_mass_difference, u.locals.Ep,
                            u.locals.saturated[3], u.dt)
    /\ threads' = [Unlock(At(threads, "update", "report"), "update")
                   EXCEPT !.update.gm = gains]
    /\ UNCHANGED <<is_active, first_iteration, uav_state_,
                   gains, drs_desired_gains, last_output_command,
                   activation_control_command_, last_update, mute_lateral_gains,
                   mutex_lateral_gains_after_toggle, Ib_b, Iw_w, op, ret, seed,
                   calls, pid, pid_controller>>

\* update(): the report under mutex_integrals_, then the output command from
\* the members as they are now
update_output ==
    /\ threads.pc["update"] = "report_locked"
    /\ \E u \in {threads.update} :
       \E cmd \in {[u.cmd EXCEPT
                      !.mass_difference = uav_mass_difference,
                      !.disturbance_bx_b = IntegralToDisturbance(u.cmd.total_mass, Ib_b[1]),
                      !.disturbance_by_b = IntegralToDisturbance(u.cmd.total_mass, Ib_b[2]),
                      !.disturbance_wx_w = IntegralToDisturbance(u.cmd.total_mass, Iw_w[1]),
                      !.disturbance_wy_w = IntegralToDisturbance(u.cmd.total_mass, Iw_w[2])]} :
          /\ last_output_command' = cmd
          /\ op' = [Call("update", "full") EXCEPT !.tick = u.locals]
          /\ ret' = Returned(TRUE, cmd)
          /\ threads' =
                 [Unlock(At(threads, "update", "idle"), "update")
                  EXCEPT !.update.done = TRUE,
                         !.update.after = [is_active |-> is_active,
                                           uav_mass_difference |-> uav_mass_difference,
                                           Ib_b |-> Ib_b, Iw_w |-> Iw_w]]
    /\ UNCHANGED <<is_active, first_iteration, uav_state_, uav_mass_difference,
                   gains, drs_desired_gains, activation_control_command_,
                   last_update, mute_lateral_gains,
                   mutex_lateral_gains_after_toggle, Ib_b, Iw_w, seed, calls, pid, pid_controller>>

\* timerGainsFilter(): bypass_filter and gain_coeff, before the scope
timer_flags ==
    /\ Started("timerGainsFilter", {})
    /\ mutex_lateral_gains_after_toggle' = FALSE
    /\ threads' = [At(threads, "timerGainsFilter", "flags")
                   EXCEPT !.timer = [done |-> FALSE,
                                     mute |-> mute_lateral_gains,
                                     after_toggle |-> mutex_lateral_gains_after_toggle]]
    /\ UNCHANGED <<is_active, first_iteration, uav_state_, uav_mass_difference,
                   gains, drs_desired_gains, last_output_command,
                   activation_control_command_, last_update, mute_lateral_gains,
                   Ib_b, Iw_w, op, ret, seed>>

\* timerGainsFilter(): the gains are filtered under mutex_gains and
\* mutex_desired_gains
timer_filter ==
    /\ threads.pc["timerGainsFilter"] = "locked"
    /\ gains' = FilteredGains(gains, drs_desired_gains, threads.timer.mute,
                              threads.timer.after_toggle)
    /\ op' = [Call("timerGainsFilter", "done") EXCEPT
                 !.tick = [full |-> FALSE,
                           bypass_filter |-> threads.timer.mute
                                                 \/ threads.timer.after_toggle,
                           gain_coeff |-> IF threads.timer.mute
                                          THEN MuteCoefficient ELSE Scale,
                           current |-> gains]]
    /\ ret' = Returned(TRUE, NullPtr)
    /\ threads' = [During(Unlock(At(threads, "timerGainsFilter", "idle"),
                                 "timerGainsFilter"), "timerGainsFilter")
                   EXCEPT !.timer.done = TRUE]
    /\ UNCHANGED <<is_active, first_iteration, uav_state_, uav_mass_difference,
                   drs_desired_gains, last_output_command,
                   activation_control_command_, last_update, mute_lateral_gains,
                   mutex_lateral_gains_after_toggle, Ib_b, Iw_w, seed, calls, pid, pid_controller>>

\* dynamicReconfigureCallback(): std::scoped_lock lock(mutex_desired_gains)
drs_lock ==
    /\ Started("dynamicReconfigureCallback", {"mutex_desired_gains"})
    /\ threads' = Lock(At(threads, "dynamicReconfigureCallback", "locked"),
                       "dynamicReconfigureCallback", {"mutex_desired_gains"})
    /\ UNCHANGED members

\* dynamicReconfigureCallback(): drs_desired_gains = config
drs_store(config) ==
    /\ threads.pc["dynamicReconfigureCallback"] = "locked"
    /\ dynamicReconfigureCallback(config)
    /\ threads' = Unlock(At(threads, "dynamicReconfigureCallback", "idle"),
                         "dynamicReconfigureCallback")
    /\ UNCHANGED <<calls, pid, pid_controller>>

\* resetDisturbanceEstimators(): std::scoped_lock lock(mutex_integrals_)
reset_lock ==
    /\ Started("resetDisturbanceEstimators", {"mutex_integrals_"})
    /\ threads' = Lock(At(threads, "resetDisturbanceEstimators", "locked"),
                       "resetDisturbanceEstimators", {"mutex_integrals_"})
    /\ UNCHANGED members

\* resetDisturbanceEstimators(): both integrals are zeroed
reset_zero ==
    /\ threads.pc["resetDisturbanceEstimators"] = "locked"
    /\ resetDisturbanceEstimators
    /\ threads' = [During(Unlock(At(threads, "resetDisturbanceEstimators", "idle"),
                                 "resetDisturbanceEstimators"),
                          "resetDisturbanceEstimators")
                   EXCEPT !.switch = IF threads.pc["switchOdometrySource"] = "idle"
                                     THEN @ ELSE [@ EXCEPT !.reset = TRUE]]
    /\ UNCHANGED <<calls, pid, pid_controller>>

\* switchOdometrySource(): mrs_lib::get_mutexed(mutex_uav_state_, uav_state_)
switch_lock_uav_state(msg_frame_id) ==
    /\ Started("switchOdometrySource", {"mutex_uav_state_"})
    /\ threads' = [Lock(At(threads, "switchOdometrySource", "uav_state_locked"),
                        "switchOdometrySource", {"mutex_uav_state_"})
                   EXCEPT !.switch = [done |-> FALSE, frame_id |-> msg_frame_id,
                                      how |-> "fail",
                                      world_integrals |-> <<0, 0>>,
                                      ticks |-> << >>,
                                      reset |-> FALSE,
                                      before |-> <<0, 0>>,
                                      after |-> <<0, 0>>]]
    /\ UNCHANGED members

\* switchOdometrySource(): world_integrals is filled from Iw_w, with no mutex
\* held, and transformed
switch_transform(how) ==
    /\ threads.pc["switchOdometrySource"] = "uav_state_locked"
    /\ \/ how = "fail"
       \/ how = "same" /\ threads.switch.frame_id = uav_state_.frame_id
       \/ how = "swap" /\ threads.switch.frame_id # uav_state_.frame_id
    /\ threads' = [Unlock(At(threads, "switchOdometrySource", "transformed"),
                          "switchOdometrySource")
                   EXCEPT !.switch.how = how,
                          !.switch.world_integrals = Iw_w,
                          !.switch.ticks = << >>,
                          !.switch.reset = FALSE]
    /\ UNCHANGED <<members, calls, pid, pid_controller>>

\* switchOdometrySource(): Iw_w is written under mutex_integrals_
switch_write ==
    /\ threads.pc["switchOdometrySource"] = "locked"
    /\ \E s \in {threads.switch} :
       \E I \in {IF s.how # "fail" THEN Transformed(s.how, s.world_integrals)
                 ELSE <<0, 0>>} :
          /\ Iw_w' = I
          /\ threads' =
                 [During(Unlock(At(threads, "switchOdometrySource", "idle"),
                                "switchOdometrySource"), "switchOdometrySource")
                  EXCEPT !.switch.done = TRUE,
                         !.switch.before = Iw_w,
                         !.switch.after = I]
    /\ op' = Call("switchOdometrySource", threads.switch.how)
    /\ ret' = Returned(TRUE, NullPtr)
    /\ UNCHANGED <<is_active, first_iteration, uav_state_, uav_mass_difference,
                   gains, drs_desired_gains, last_output_command,
                   activation_control_command_, last_update, mute_lateral_gains,
                   mutex_lateral_gains_after_toggle, Ib_b, seed, calls, pid, pid_controller>>

\* the steps of a call once it has started
Step(o) ==
    \/ o = "update" /\ update_store
    \/ o = "update" /\ Locks("update", "kp", "kp_locked")
    \/ o = "update" /\ update_read_gains
    \/ o = "update" /\ Locks("update", "i_component", "i_component_locked")
    \/ o = "update" /\ update_feedback
    \/ o = "update" /\ Locks("update", "world", "world_locked")
    \/ o = "update" /\ update_world_integral
    \/ o = "update" /\ update_lock_body
    \/ o = "update" /\ update_body_integral
    \/ o = "update" /\ Locks("update", "mass", "mass_locked")
    \/ o = "update" /\ update_mass
    \/ o = "update" /\ Locks("update", "report", "report_locked")
    \/ o = "update" /\ update_output
    \/ o = "timerGainsFilter" /\ Locks("timerGainsFilter", "flags", "locked")
    \/ o = "timerGainsFilter" /\ timer_filter
    \/ o = "dynamicReconfigureCallback" /\ \E config \in Configs : drs_store(config)
    \/ o = "resetDisturbanceEstimators" /\ reset_zero
    \/ o = "switchOdometrySource" /\ \E how \in Transforms : switch_transform(how)
    \/ o = "switchOdometrySource"
           /\ Locks("switchOdometrySource", "transformed", "locked")
    \/ o = "switchOdometrySource" /\ switch_write

\* the calls that start, for given last commands and given messages
StartWith(commands, MessagesAt(_)) ==
    \/ \E cmd \in commands : thread_activate(cmd)
    \/ thread_deactivate
    \/ \E stamp \in Stamps : \E in \in MessagesAt(stamp) :
           update_lock_uav_state(in[1], in[2])
    \/ timer_flags
    \/ drs_lock
    \/ reset_lock
    \/ \E frame_id \in Frames : switch_lock_uav_state(frame_id)

NextThreads ==
    \/ StartWith(PreviousCommands \ {NullPtr}, ThreadInputs)
    \/ \E o \in Ops : Step(o)

SpecThreads == Init /\ [][NextThreads]_vars

\* the messages of the calls when only the mutexes are of interest
LockInputs(stamp) ==
    {in \in ThreadInputs(stamp) : in[1].position = <<-1000, 0, -200>>
                                  /\ stamp # 1}

\* the last command of the controller that was active before
LockCommands == {cmd \in PreviousCommands : cmd.controller = "MpcController"}

\* the controller after activate(cmd) and the first update(), at stamp 0
InitLocks ==
    \E cmd \in LockCommands :
        /\ is_active = TRUE
        /\ first_iteration = FALSE
        /\ uav_state_ = [frame_id |-> "gps_origin", stamp |-> 0]
        /\ uav_mass_difference = cmd.mass_difference
        /\ gains = DefaultGains
        /\ drs_desired_gains = DefaultGains
        /\ last_output_command = NullPtr
        /\ activation_control_command_ =
               [cmd EXCEPT !.controller_enforcing_constraints = FALSE]
        /\ last_update = 0
        /\ mute_lateral_gains = FALSE
        /\ mutex_lateral_gains_after_toggle = FALSE
        /\ Ib_b = <<DisturbanceToIntegral(cmd.disturbance_bx_b, cmd.total_mass),
                    DisturbanceToIntegral(cmd.disturbance_by_b, cmd.total_mass)>>
        /\ Iw_w = <<DisturbanceToIntegral(cmd.disturbance_wx_w, cmd.total_mass),
                    DisturbanceToIntegral(cmd.disturbance_wy_w, cmd.total_mass)>>
        /\ op = Call("update", "first_iteration")
        /\ ret = Returned(TRUE, NewPtr([cmd EXCEPT
                                           !.controller_enforcing_constraints = FALSE]))
        /\ seed = cmd
        /\ calls = 2
        /\ threads = NoThreads
        /\ pid = NoPid
        /\ pid_controller = NoPidController

NextLocks ==
    \/ StartWith(LockCommands, LockInputs)
    \/ \E o \in Ops : Step(o)

\* a call in flight can take its next step: it waits for no mutex that
\* another call owns
Runnable(o) == threads.pc[o] # "idle" /\ Free(Wanted(o))

\* every thread that can run does run in the end: weak fairness of the steps
\* of each call, WF_vars(Step(o)), with Runnable(o) for ENABLED <<Step(o)>>_vars
Scheduled(o) == []<>(~Runnable(o)) \/ []<><<Step(o)>>_vars

SpecLocks == InitLocks /\ [][NextLocks]_vars /\ \A o \in Ops : Scheduled(o)

(***************************************************************************)
(* A Pid object under the calls PidController makes on it                  *)
(***************************************************************************)

\* kp, kd, ki of the configuration and of dynamic reconfigure
PidGains == { [kp |-> 1000, kd |-> 500, ki |-> 100],
              [kp |-> 5000, kd |-> 0, ki |-> 1000] }

\* control errors: large and small of either sign, and one that is not finite
PidErrors == {-3000, -50, 50, 3000, NaN}

\* dt in seconds: none, a millisecond, a second
PidDts == {0, 1, 1000}

\* the NsfController is left alone
NsfUnchanged ==
    UNCHANGED <<is_active, first_iteration, uav_state_, uav_mass_difference,
                gains, drs_desired_gains, last_output_command,
                activation_control_command_, last_update, mute_lateral_gains,
                mutex_lateral_gains_after_toggle, Ib_b, Iw_w, ret, seed,
                calls, threads>>

\* new Pid("x", ...), new Pid("z", ...) of PidController::Initialize()
Pid_new(name, g) ==
    /\ pid' = Pid(name, g.kp, g.kd, g.ki, PidIntegralSaturation,
                  IF name = "z" THEN PidThrustSaturation ELSE PidMaxTiltAngle,
                  PidExpFilterConst)
    /\ op' = Call("Pid::Pid", name)
    /\ NsfUnchanged
    /\ UNCHANGED pid_controller

\* Pid::setGains()
Pid_setGains(kp, kd, ki) ==
    /\ pid.name # ""
    /\ pid' = [pid EXCEPT !.kp = kp, !.kd = kd, !.ki = ki]
    /\ op' = Call("Pid::setGains", "done")
    /\ NsfUnchanged
    /\ UNCHANGED pid_controller

\* Pid::update()
Pid_update(error, dt) ==
    /\ pid.name # ""
    /\ \E t \in {PidUpdate(pid, error, dt)} :
           /\ pid' = t.pid
           /\ op' = [Call("Pid::update", "done") EXCEPT !.tick = t.locals]
    /\ NsfUnchanged
    /\ UNCHANGED pid_controller

\* Pid::reset()
Pid_reset(last_error) ==
    /\ pid.name # ""
    /\ pid' = [pid EXCEPT !.integral = 0, !.last_error = last_error]
    /\ op' = Call("Pid::reset", "done")
    /\ NsfUnchanged
    /\ UNCHANGED pid_controller

NextPid ==
    \/ \E name \in {"x", "z"}, g \in PidGains : Pid_new(name, g)
    \/ \E g \in PidGains : Pid_setGains(g.kp, g.kd, g.ki)
    \/ \E error \in PidErrors, dt \in PidDts : Pid_update(error, dt)
    \/ \E last_error \in PidErrors : Pid_reset(last_error)

SpecPid == Init /\ [][NextPid]_vars

(***************************************************************************)
(* Activation cycles: the controller is activated only while it is not      *)
(* active, runs, is deactivated and activated again                         *)
(***************************************************************************)

\* longest sequence of calls that is followed over the activation cycles
MaxCycleCalls == 7

\* the state message with the small error, position gains enabled
CycleInputs(stamp) ==
    {in \in Inputs(stamp) : /\ in[1].position = <<-1000, 0, -200>>
                            /\ ~in[2].disable_position_gains}

CalledCycle(entry) ==
    /\ calls < MaxCycleCalls
    /\ calls' = calls + 1
    /\ UNCHANGED <<threads, pid, pid_controller>>
    /\ entry

NextCycle ==
    \/ \E cmd \in PreviousCommands \ {NullPtr} :
           CalledCycle(~is_active /\ activate(cmd))
    \/ CalledCycle(is_active /\ deactivate)
    \/ \E stamp \in Stamps : \E in \in CycleInputs(stamp) :
           CalledCycle(update(in[1], in[2]))

SpecCycle == Init /\ [][NextCycle]_vars

(***************************************************************************)
(* A stream of state messages to the active controller: the first one at   *)
(* stamp 0, each later one 1 ms or 2 ms after the one before               *)
(***************************************************************************)

\* largest header.stamp (milliseconds) of a message of the stream
MaxStreamStamp == 4

\* header.stamp of a message - header.stamp of the message before it
StreamGaps == {1, 2}

CalledStream(entry) ==
    /\ calls' = calls + 1
    /\ UNCHANGED <<threads, pid, pid_controller>>
    /\ entry

NextStream ==
    \/ \E cmd \in PreviousCommands \ {NullPtr} :
           CalledStream(~is_active /\ activate(cmd))
    \/ \E stamp \in 0 .. MaxStreamStamp : \E in \in Inputs(stamp) :
           CalledStream(/\ is_active
                        /\ IF first_iteration THEN stamp = 0
                           ELSE stamp - uav_state_.stamp \in StreamGaps
                        /\ update(in[1], in[2]))

SpecStream == Init /\ [][NextStream]_vars

(***************************************************************************)
(* The PidController under the calls the controller manager makes on it    *)
(***************************************************************************)

\* latest ros::Time::now() (milliseconds) an update() is called at
MaxNow == 12

\* time between two calls of update(): a millisecond, five milliseconds
PidControllerGaps == {1, 5}

\* nav_msgs::Odometry: the fields update() reads
Odometry(position, rpy) == [position |-> position, rpy |-> rpy]

\* the odometry and the references update() is called with
PidControllerInputs ==
    { <<Odometry(<<-100, 0, -200>>, Zero3),
        Reference(Zero3, Zero3, Zero3, 0, FALSE)>>,
      <<Odometry(<<3000, 1000, 0>>, <<0, 0, 785>>),
        Reference(Zero3, Zero3, Zero3, 785, FALSE)>> }

\* the NsfController and the Pid object are left alone
OnlyPidController ==
    /\ NsfUnchanged
    /\ UNCHANGED pid

\* PidController::Initialize()
PidController_Initialize(g) ==
    /\ ~pid_controller.initialized
    /\ pid_controller' =
           [pid_controller EXCEPT
               !.initialized = TRUE,
               !.hover_thrust_ = PidHoverThrust,
               !.pid_x = Pid("x", g.kp, g.kd, g.ki, PidIntegralSaturation,
                             PidMaxTiltAngle, PidExpFilterConst),
               !.pid_y = Pid("y", g.kp, g.kd, g.ki, PidIntegralSaturation,
                             PidMaxTiltAngle, PidExpFilterConst),
               !.pid_z = Pid("z", g.kp, g.kd, g.ki, PidIntegralSaturation,
                             PidThrustSaturation, PidExpFilterConst)]
    /\ op' = Call("PidController::Initialize", "done")
    /\ OnlyPidController

\* PidController::Activate()
PidController_Activate ==
    /\ pid_controller.initialized
    /\ pid_controller' = [pid_controller EXCEPT !.first_iteration = TRUE]
    /\ op' = Call("PidController::Activate", "done")
    /\ OnlyPidController

\* PidController::Deactivate()
PidController_Deactivate ==
    /\ pid_controller.initialized
    /\ pid_controller' = pid_controller
    /\ op' = Call("PidController::Deactivate", "done")
    /\ OnlyPidController

\* PidController::dynamicReconfigureCallback()
PidController_dynamicReconfigureCallback(g) ==
    /\ pid_controller.initialized
    /\ pid_controller' =
           [pid_controller EXCEPT
               !.pid_x = [@ EXCEPT !.kp = g.kp, !.kd = g.kd, !.ki = g.ki],
               !.pid_y = [@ EXCEPT !.kp = g.kp, !.kd = g.kd, !.ki = g.ki],
               !.pid_z = [@ EXCEPT !.kp = g.kp, !.kd = g.kd, !.ki = g.ki]]
    /\ op' = Call("PidController::dynamicReconfigureCallback", "done")
    /\ OnlyPidController

\* PidController::update(), called when ros::Time::now() is now
PidController_update(odometry, reference, now) ==
    LET c == pid_controller
        error == VSub(reference.position, odometry.position)
        dt == now - c.last_update
        roll == odometry.rpy[1]
        pitch == odometry.rpy[2]
        yaw == odometry.rpy[3]
    IN /\ c.initialized
       /\ IF c.first_iteration
          THEN /\ pid_controller' =
                      [c EXCEPT
                          !.pid_x = [@ EXCEPT !.integral = 0, !.last_error = error[1]],
                          !.pid_y = [@ EXCEPT !.integral = 0, !.last_error = error[2]],
                          !.pid_z = [@ EXCEPT !.integral = 0, !.last_error = error[3]],
                          !.last_update = now,
                          !.first_iteration = FALSE]
               /\ op' = Call("PidController::update", "first_iteration")
               /\ ret' = Returned(TRUE, NullPtr)
          ELSE IF Le(dt, 1)
          THEN /\ pid_controller' = [c EXCEPT !.last_update = now]
               /\ op' = Call("PidController::update", "too_small_dt")
               /\ ret' = Returned(TRUE, c.last_output_command)
          ELSE \E x \in {PidUpdate(c.pid_x, error[1], dt)},
                  y \in {PidUpdate(c.pid_y, error[2], dt)},
                  z \in {PidUpdate(c.pid_z, error[3], dt)} :
                   LET action_x == x.control_output
                       action_y == y.control_output
                       action_z == Mul(Add(z.control_output, c.hover_thrust_),
                                       Div(Scale, Mul(Cos(roll), Cos(pitch))))
                       output_command ==
                           PidCommand(Sub(Mul(action_x, Cos(yaw)),
                                          Mul(action_y, Sin(yaw))),
                                      Add(Mul(action_y, Cos(yaw)),
                                          Mul(action_x, Sin(yaw))),
                                      reference.yaw, action_z)
                   IN /\ pid_controller' =
                             [c EXCEPT !.pid_x = x.pid, !.pid_y = y.pid,
                                       !.pid_z = z.pid, !.last_update = now,
                                       !.computed = output_command]
                      /\ op' = Call("PidController::update", "full")
                      /\ ret' = Returned(TRUE, output_command)
       /\ UNCHANGED <<is_active, first_iteration, uav_state_,
                      uav_mass_difference, gains, drs_desired_gains,
                      last_output_command, activation_control_command_,
                      last_update, mute_lateral_gains,
                      mutex_lateral_gains_after_toggle, Ib_b, Iw_w, seed,
                      calls, threads, pid>>

NextPidController ==
    \/ \E g \in PidGains : PidController_Initialize(g)
    \/ PidController_Activate
    \/ PidController_Deactivate
    \/ \E g \in PidGains : PidController_dynamicReconfigureCallback(g)
    \/ \E in \in PidControllerInputs, gap \in PidControllerGaps :
           /\ pid_controller.last_update + gap <= MaxNow
           /\ PidController_update(in[1], in[2], pid_controller.last_update + gap)

SpecPidController == Init /\ [][NextPidController]_vars

(***************************************************************************)
(* Properties                                                              *)
(***************************************************************************)

\* the controller waits for the first update() after a successful activate()
Bootstrapping == is_active /\ first_iteration

\* the controller is active and its first iteration is behind it
PastBootstrap == is_active /\ ~first_iteration

\* the step is a call of the named entry point
Calls(name) == op'.name = name

\* dt of the update() the step makes: time of the message - last_update
Dt == uav_state_'.stamp - last_update

\* the command update() hands back when it does not compute one
Fallback ==
    IF last_output_command # NullPtr
    THEN last_output_command
    ELSE NewPtr(activation_control_command_)

\* the integrals activate() derives from the disturbances of a command
SeededIb(cmd) ==
    <<Asin(Div(cmd.disturbance_bx_b, Mul(G, cmd.total_mass))),
      Asin(Div(cmd.disturbance_by_b, Mul(G, cmd.total_mass)))>>

SeededIw(cmd) ==
    <<Asin(Div(cmd.disturbance_wx_w, Mul(G, cmd.total_mass))),
      Asin(Div(cmd.disturbance_wy_w, Mul(G, cmd.total_mass)))>>

\* C1: activate() called with no previous command returns false and changes
\* nothing: is_active, first_iteration, uav_mass_difference, Ib_b, Iw_w and
\* the stored activation command keep their values, so an inactive controller
\* stays inactive.
C1_ActivateWithoutCommand ==
    [][(Calls("activate") /\ op'.cmd = NullPtr) =>
          /\ ret'.ok = FALSE
          /\ UNCHANGED <<is_active, first_iteration, uav_mass_difference,
                         Ib_b, Iw_w, activation_control_command_>>]_vars

\* activate() was refused on a controller that had been activated, had made
\* its first iteration and was deactivated again, and left it inactive
C1_Witness ==
    /\ op.name = "activate"
    /\ op.cmd = NullPtr
    /\ ~ret.ok
    /\ ~is_active
    /\ ~first_iteration
    /\ seed # NullPtr
    /\ Iw_w # <<0, 0>>

\* C2: activate() called with a previous command cmd returns true and leaves
\* the controller active with uav_mass_difference = cmd.mass_difference,
\* first_iteration = true and both integrals overwritten by
\* asin(disturbance / (g * total_mass)), whatever state it was called in.
C2_ActivateWithCommand ==
    [][(Calls("activate") /\ op'.cmd # NullPtr) =>
          /\ ret'.ok
          /\ is_active'
          /\ first_iteration'
          /\ uav_mass_difference' = op'.cmd.mass_difference
          /\ Ib_b' = SeededIb(op'.cmd)
          /\ Iw_w' = SeededIw(op'.cmd)]_vars

\* activate() succeeded on a controller that a full tick had already run on,
\* with a command whose disturbances give integrals other than zero
C2_Witness ==
    /\ op.name = "activate"
    /\ ret.ok
    /\ op.cmd.mass_difference = 500
    /\ last_output_command # NullPtr
    /\ is_active
    /\ first_iteration
    /\ uav_mass_difference = 500
    /\ Ib_b = <<2, 0>>
    /\ Iw_w = <<524, NaN>>

\* C3, as the specification states it: the first update() after a successful
\* activate(cmd) returns a command equal to cmd in every field, and changes
\* only last_update and first_iteration.
C3_AsStated ==
    [][(Calls("update") /\ Bootstrapping) =>
          /\ ret'.cmd = seed
          /\ UNCHANGED <<is_active, uav_mass_difference, gains,
                         drs_desired_gains, last_output_command,
                         activation_control_command_, mute_lateral_gains,
                         mutex_lateral_gains_after_toggle, Ib_b, Iw_w>>]_vars

\* C3: the first update() after a successful activate(cmd) returns a command
\* equal to cmd in every field but controller_enforcing_constraints, which is
\* false whatever cmd carried; it changes no gain, no integral and not
\* uav_mass_difference: it records the time of the message in last_update and
\* clears first_iteration.
C3_Bootstrap ==
    [][(Calls("update") /\ Bootstrapping) =>
          /\ ret'.cmd = [seed EXCEPT !.controller_enforcing_constraints = FALSE]
          /\ last_update' = uav_state_'.stamp
          /\ ~first_iteration'
          /\ UNCHANGED <<is_active, uav_mass_difference, gains,
                         drs_desired_gains, last_output_command,
                         activation_control_command_, mute_lateral_gains,
                         mutex_lateral_gains_after_toggle, Ib_b, Iw_w>>]_vars

\* the first iteration ran after an activation whose command enforced the
\* constraints, at a time other than zero, and returned it with the flag off
C3_Witness ==
    /\ op.name = "update"
    /\ op.branch = "first_iteration"
    /\ seed # NullPtr
    /\ seed.controller_enforcing_constraints
    /\ ~ret.cmd.controller_enforcing_constraints
    /\ ret.cmd.controller = seed.controller
    /\ last_update = uav_state_.stamp
    /\ last_update > 0
    /\ ~first_iteration

\* C4: every update() made while the controller is not active returns no
\* command and leaves uav_mass_difference, Ib_b, Iw_w, last_update and the
\* mute flags unchanged.
C4_UpdateWhileInactive ==
    [][(Calls("update") /\ ~is_active) =>
          /\ ret'.cmd = NullPtr
          /\ UNCHANGED <<uav_mass_difference, Ib_b, Iw_w, last_update,
                         mute_lateral_gains,
                         mutex_lateral_gains_after_toggle>>]_vars

\* update() returned no command after a deactivate(), for a message of another
\* time than last_update, on a controller with integrals other than zero
C4_Witness ==
    /\ op.name = "update"
    /\ ~is_active
    /\ ret.cmd = NullPtr
    /\ seed # NullPtr
    /\ Iw_w # <<0, 0>>
    /\ uav_state_.stamp # last_update

\* C5: deactivate() can be called in every state and succeeds, leaves the
\* controller inactive with uav_mass_difference = 0, and leaves Ib_b and Iw_w
\* as they were before the call.
C5_Deactivate ==
    /\ [](calls < MaxCalls => ENABLED Called(deactivate))
    /\ [][Calls("deactivate") =>
             /\ ret'.ok
             /\ ~is_active'
             /\ uav_mass_difference' = 0
             /\ UNCHANGED <<Ib_b, Iw_w>>]_vars

\* deactivate() ran on a controller that was seeded with a mass difference and
\* with integrals other than zero: the first is gone, the others are kept
C5_Witness ==
    /\ op.name = "deactivate"
    /\ ~is_active
    /\ seed # NullPtr
    /\ seed.mass_difference = 500
    /\ uav_mass_difference = 0
    /\ Ib_b = <<2, 0>>
    /\ Iw_w = <<524, NaN>>

\* C6: for an active controller past its first iteration, an update() whose
\* dt = time of the message - last_update is <= 0.001 s returns the last
\* output command if a full tick has produced one, and the activation command
\* otherwise.
C6_AnomalyReturnsLastOutput ==
    [][(Calls("update") /\ PastBootstrap /\ Dt <= 1) =>
          ret'.cmd = Fallback]_vars

\* C7: for every update() whose dt is <= 0.001 s, zero and negative dt
\* included, the full pipeline does not run: Ib_b, Iw_w and
\* uav_mass_difference are unchanged by the call, and the output the update()
\* before it returned is returned again.
C7_AnomalyIsIdempotent ==
    [][(op.name = "update" /\ Calls("update") /\ PastBootstrap /\ Dt <= 1) =>
          /\ UNCHANGED <<Ib_b, Iw_w, uav_mass_difference>>
          /\ ret'.cmd = ret.cmd]_vars

\* C8: an update() that is rejected because its message came too close
\* changes no state of the controller: last_update keeps the time of the
\* last first iteration or full tick.
C8_AnomalyChangesNothing ==
    [][(Calls("update") /\ PastBootstrap /\ TooClose(Dt)) =>
          UNCHANGED <<last_update, is_active, first_iteration,
                      uav_mass_difference, gains, drs_desired_gains,
                      last_output_command, activation_control_command_,
                      mute_lateral_gains, mutex_lateral_gains_after_toggle,
                      Ib_b, Iw_w>>]_vars

\* a value lies within +/- limit
Within(value, limit) == IsFinite(value) /\ Le(Abs(value), limit)

\* C9: in every reachable state each component of Ib_b lies within
\* +/- kibxy_lim, each component of Iw_w within +/- kiwxy_lim, and
\* uav_mass_difference within +/- km_lim, against the live limits.
C9_IntegralsWithinLimits ==
    /\ \A i \in 1..2 : Within(Ib_b[i], gains.kibxy_lim)
    /\ \A i \in 1..2 : Within(Iw_w[i], gains.kiwxy_lim)
    /\ Within(uav_mass_difference, gains.km_lim)

\* the thrust of a command is finite and lies in [0, thrust_saturation]
ThrustInRange(cmd) ==
    /\ IsFinite(cmd.thrust)
    /\ cmd.thrust >= 0
    /\ cmd.thrust <= ThrustSaturation

\* C10: every command a full tick produces has a finite thrust in
\* [0, thrust_saturation], for finite and non-finite inputs; the lower bound
\* of the thrust is 0, not -thrust_saturation.
C10_ThrustInRange ==
    /\ last_output_command # NullPtr => ThrustInRange(last_output_command)
    /\ (op.name = "update" /\ op.branch = "full") =>
           /\ ret.cmd = last_output_command
           /\ ThrustInRange(ret.cmd)

\* a full tick returned a command whose thrust is at the lower bound
C10_Witness ==
    /\ op.name = "update"
    /\ op.branch = "full"
    /\ ret.cmd # NullPtr
    /\ ret.cmd.thrust = 0

\* the step is a full tick of update()
FullTickStep == op'.name = "update" /\ op'.branch = "full"

\* the state was produced by a full tick of update()
AfterFullTick == op.name = "update" /\ op.branch = "full"

\* the tilts of a command are finite and each within +/- max_tilt_angle
TiltInRange(cmd) ==
    /\ IsFinite(cmd.euler_x)
    /\ IsFinite(cmd.euler_y)
    /\ Le(Abs(cmd.euler_x), MaxTiltAngle)
    /\ Le(Abs(cmd.euler_y), MaxTiltAngle)

\* C11: every command a full tick produces has euler_attitude.x and
\* euler_attitude.y (the world feedback rotated into the body frame by yaw)
\* finite and each within +/- max_tilt_angle, for every yaw.
C11_TiltInRange ==
    /\ last_output_command # NullPtr => TiltInRange(last_output_command)
    /\ AfterFullTick => TiltInRange(ret.cmd)

\* in the full tick the step makes, the world feedback on horizontal axis a
\* was saturated with the sign of the position error on that axis
WoundUp(a) ==
    /\ op'.tick.saturated[a]
    /\ Sign(op'.tick.feedback_w[a]) = Sign(op'.tick.Ep[a])

\* C12: anti-windup: in a full tick where the world feedback on horizontal
\* axis a is saturated with the sign of Ep[a], Iw_w[a] after the tick equals
\* Iw_w[a] before the tick, for any live gains and limits.
C12_AntiWindup ==
    [][FullTickStep =>
          \A a \in 1 .. 2 : WoundUp(a) => Iw_w'[a] = Iw_w[a]]_vars

\* C13: in a full tick uav_mass_difference accumulates km * Ep[Z] * dt if and
\* only if the thrust was not saturated in that tick; when the thrust is
\* saturated, at 0 or at thrust_saturation, nothing is accumulated; the
\* result is then clamped to +/- km_lim (and reset to 0 when not finite).
C13_MassEstimator ==
    [][FullTickStep =>
          LET t == op'.tick
              accumulated ==
                  IF t.saturated[3]
                  THEN uav_mass_difference
                  ELSE Add(uav_mass_difference,
                           Mul(Mul(t.km.km, t.Ep[3]), t.dt))
          IN uav_mass_difference' = SaturateIntegral(accumulated, t.km.km_lim)]_vars

\* the first full tick after an activation with mass difference 0 had a
\* vertical error and a saturated thrust, and the mass difference is still 0
C13_Witness ==
    /\ AfterFullTick
    /\ calls = 3
    /\ seed # NullPtr
    /\ seed.mass_difference = 0
    /\ op.tick.saturated[3]
    /\ IsFinite(op.tick.Ep[3])
    /\ op.tick.Ep[3] # 0
    /\ uav_mass_difference = 0

\* the gains update() multiplies by the mute coefficient
Horizontal == {"kpxy", "kvxy", "kaxy", "kiwxy", "kibxy"}

\* the value timerGainsFilter() moves a gain to, in the state it starts in
Target(name) ==
    IF name \in Horizontal /\ mute_lateral_gains
    THEN Mul(drs_desired_gains[name], MuteCoefficient)
    ELSE drs_desired_gains[name]

\* timerGainsFilter() hands bypass_rate = true for a gain, in the state it
\* starts in
Bypassed(name) ==
    /\ name \in Horizontal
    /\ mute_lateral_gains \/ mutex_lateral_gains_after_toggle

\* x lies between a and b, ends included
Between(a, x, b) == (a <= x /\ x <= b) \/ (b <= x /\ x <= a)

\* C14: for fixed desired values and change fractions in (0, 1], every
\* calculateGainChange() that does not bypass the rate returns a value between
\* the current and the desired one, ends included, so repeated calls approach
\* the desired value monotonically and never pass it, also when current and
\* desired have opposite signs and when the current value is near zero.
C14_NoOvershoot ==
    [][Calls("timerGainsFilter") =>
          \A name \in DOMAIN gains :
              ~Bypassed(name) =>
                  Between(gains[name], gains'[name], Target(name))]_vars

\* the filter ran once on a gain of -3 wanted at 3: the gain is at -1.5, on
\* the way to the desired value and still of the other sign
C14_Witness ==
    /\ op.name = "timerGainsFilter"
    /\ calls = 1
    /\ gains.kpz = -1500
    /\ drs_desired_gains.kpz = 3000

C16_NeverStalls ==
    [][Calls("timerGainsFilter") =>
          \A name \in DOMAIN gains :
              (~Bypassed(name) /\ gains[name] # Target(name)) =>
                  /\ gains'[name] # gains[name]
                  /\ Abs(Target(name) - gains'[name])
                         < Abs(Target(name) - gains[name])]_vars

\* the fallback to the minimal change took a gain of -1 wanted at 3 to 0, and
\* the step from near zero took it on to 1.5
C16_Witness ==
    /\ op.name = "timerGainsFilter"
    /\ calls = 2
    /\ drs_desired_gains.km = 3000
    /\ gains.km = 1500
    /\ gains.km_lim = 1500

VerticalLimited ==
    \A name \in DOMAIN gains \ Horizontal :
        gains'[name] =
            calculateGainChange(gains[name], drs_desired_gains[name], FALSE)

C19_FrameSwitch ==
    [][Calls("switchOdometrySource") =>
          /\ op'.branch = "fail" => Iw_w' = <<0, 0>>
          /\ op'.branch = "swap" => Iw_w' = <<Iw_w[2], Iw_w[1]>>
          /\ op'.branch = "same" => Iw_w' = Iw_w
          /\ ret'.ok
          /\ UNCHANGED <<Ib_b, uav_mass_difference, gains, is_active,
                         first_iteration>>]_vars

\* the last full tick reported a world disturbance on x and none on y, and
\* the switch that followed it has moved the world integral from x to y
C19_Witness ==
    /\ op.name = "switchOdometrySource"
    /\ op.branch = "swap"
    /\ calls = 4
    /\ is_active
    /\ last_output_command # NullPtr
    /\ last_output_command.disturbance_wx_w = 40
    /\ last_output_command.disturbance_wy_w = 0
    /\ Iw_w = <<0, 2>>
    /\ Ib_b # <<0, 0>>

\* C20: within one update() every gain and limit the tick uses (kp, kv, ka,
\* kiwxy, kibxy, both limits of the integrals, km, km_lim) comes from one
\* snapshot of the gains: no run of timerGainsFilter() takes effect between
\* the first and the last read of a gain by the tick.
C20_GainSnapshot ==
    AfterFullTick =>
        /\ op.tick.kiw = op.tick.kp
        /\ op.tick.kib = op.tick.kp
        /\ op.tick.km = op.tick.kp


\* a call is in flight
InFlight(o) == threads.pc[o] # "idle"

\* C21: no interleaving of update(), timerGainsFilter(),
\* dynamicReconfigureCallback(), switchOdometrySource(),
\* resetDisturbanceEstimators() and deactivate() ends in a deadlock: every call
\* that has started completes in the end, with all its mutexes released.
C21_Completes ==
    \A o \in Ops :
        InFlight(o) ~> (~InFlight(o) /\ \A m \in Mutexes : threads.owner[m] # o)

\* update() holds mutex_gains and mutex_integrals_ for the world integral
\* while timerGainsFilter() waits for mutex_gains and
\* dynamicReconfigureCallback() holds mutex_desired_gains
C21_Witness ==
    /\ threads.pc["update"] = "world_locked"
    /\ threads.owner["mutex_gains"] = "update"
    /\ threads.owner["mutex_integrals_"] = "update"
    /\ threads.pc["timerGainsFilter"] = "flags"
    /\ threads.pc["dynamicReconfigureCallback"] = "locked"
    /\ threads.owner["mutex_desired_gains"] = "dynamicReconfigureCallback"

\* a full tick of update() has completed and these calls, and no others, took
\* effect while it was in flight
TickOverlapped(others) ==
    /\ threads.update.full
    /\ threads.update.done
    /\ threads.update.during = others

\* C22: every read-modify-write of Iw_w and Ib_b happens under
\* mutex_integrals_, so resetDisturbanceEstimators() is atomic with respect to
\* an update() in flight: after both have finished, each integral is what
\* running the two one after the other, in one order or the other, leaves.
C22_ResetIsAtomic ==
    TickOverlapped({"resetDisturbanceEstimators"}) =>
        LET u == threads.update IN
        /\ u.after.Ib_b \in
               {<<0, 0>>,
                IntegrateBody(u.gb, <<0, 0>>, u.locals.Ep, u.locals.yaw, u.dt)}
        /\ u.after.Iw_w \in
               {<<0, 0>>,
                IntegrateWorld(u.gw, <<0, 0>>, u.locals.Ep, Axis(u.locals, 1),
                               Axis(u.locals, 2), u.dt)}

\* C23: switchOdometrySource() running while update() is in flight leaves Iw_w
\* as one of the two serial orders does: the value it transforms is the value
\* it replaces, so the world integration of a tick that runs between its read
\* and its write is not lost.
C23_SwitchIsAtomic ==
    LET s == threads.switch IN
    (s.done /\ Len(s.ticks) = 1 /\ ~s.reset) =>
        LET u == s.ticks[1]
            T(v) == IF s.how # "fail" THEN Transformed(s.how, v) ELSE <<0, 0>>
            W(v) == IntegrateWorld(u.gw, v, u.locals.Ep, Axis(u.locals, 1),
                                   Axis(u.locals, 2), u.dt)
        IN s.after \in {T(W(s.world_integrals)), W(T(s.world_integrals))}

\* C24: deactivate() called while update() is in flight leaves the state
\* consistent: once both have finished the controller is not active and the
\* mass difference is 0.
C24_DeactivateWins ==
    (\E others \in SUBSET Ops :
        "deactivate" \in others /\ TickOverlapped(others)) =>
        /\ ~threads.update.after.is_active
        /\ threads.update.after.uav_mass_difference = 0

\* the limits among the gains
Limits == {"kiwxy_lim", "kibxy_lim", "km_lim"}

\* C25: the limits of the live gains stay non-negative: a limit that is >= 0
\* and whose desired value is >= 0 is >= 0 after a run of timerGainsFilter(),
\* and so after any number of runs.
C25_LimitsNonNegative ==
    [][\A name \in Limits :
           (Le(0, gains[name]) /\ Le(0, drs_desired_gains[name]))
               => Le(0, gains'[name])]_vars

\* a limit has been lowered toward a desired limit of zero, and another run
\* has started from zero toward a positive desired limit
C25_Witness ==
    /\ op.name = "timerGainsFilter"
    /\ \/ /\ op.tick.current.kiwxy_lim = 1000
          /\ drs_desired_gains.kiwxy_lim = 0
          /\ gains.kiwxy_lim = 500
       \/ /\ op.tick.current.km_lim = 0
          /\ drs_desired_gains.km_lim = 1000
          /\ gains.km_lim = 500

\* C26: the numeric guards never abort the tick: in a full tick of an active
\* controller a raw feedback that is not finite is issued as 0 with its
\* saturation flag false, a component of an integral or the mass difference
\* that becomes non-finite is reset to 0, and update() still returns a command.
C26_GuardsContinue ==
    [][FullTickStep =>
          LET t == op'.tick IN
          /\ \A i \in 1 .. 3 :
                 ~IsFinite(t.raw[i]) => (t.feedback_w[i] = 0 /\ ~t.saturated[i])
          /\ \A i \in 1 .. 2 :
                 (~IsFinite(t.Ep[i]) \/ ~IsFinite(Iw_w[i])) => Iw_w'[i] = 0
          /\ (\E i \in 1 .. 2 : ~IsFinite(t.Ep[i])) => Ib_b' = <<0, 0>>
          /\ \A i \in 1 .. 2 : ~IsFinite(Ib_b[i]) => Ib_b'[i] = 0
          /\ (~IsFinite(t.Ep[3]) /\ ~t.saturated[3]) => uav_mass_difference' = 0
          /\ \A i \in 1 .. 2 : IsFinite(Iw_w'[i]) /\ IsFinite(Ib_b'[i])
          /\ IsFinite(uav_mass_difference')
          /\ ~ret'.cmd.null
          /\ ret'.cmd = last_output_command']_vars

\* a full tick whose horizontal feed forward is asin() of more than 1, with a
\* finite control error, and a full tick whose control error is not finite
C26_Witness ==
    /\ AfterFullTick
    /\ \/ ~IsFinite(op.tick.raw[1]) /\ IsFinite(op.tick.Ep[1])
       \/ ~IsFinite(op.tick.Ep[1]) /\ ~IsFinite(op.tick.Ep[3])

\* a value is finite and within +/- a limit that is not negative
Bounded(value, limit) ==
    Le(0, limit) => (IsFinite(value) /\ Le(Neg(limit), value) /\ Le(value, limit))

\* C27: after every full tick completes, each component of Iw_w and Ib_b and
\* uav_mass_difference is finite and within +/- its limit as the tick read
\* it, provided that limit is >= 0.
C27_WithinLimitsAfterTick ==
    (threads.update.full /\ threads.update.done) =>
        LET u == threads.update IN
        /\ \A i \in 1 .. 2 : Bounded(u.after.Iw_w[i], u.gw.kiwxy_lim)
        /\ \A i \in 1 .. 2 : Bounded(u.after.Ib_b[i], u.gb.kibxy_lim)
        /\ Bounded(u.after.uav_mass_difference, u.gm.km_lim)

\* the gain step as the specification words it: the desired value with
\* bypass; else, with delta = desired - current, current + delta *
\* maxChangeFraction for a current value near zero; else the fractional change
\* delta / current clamped to +/- maxChangeFraction gives the rate-limited
\* delta, replaced by delta * minChangeFraction when it is smaller than that
advance(current, desired, bypassRateLimit) ==
    LET delta == Sub(desired, current)
        fraction == Div(delta, current)
        rate_limited ==
            IF Gt(fraction, GainsFilterMaxChange)
            THEN Mul(GainsFilterMaxChange, current)
            ELSE IF Lt(fraction, Neg(GainsFilterMaxChange))
            THEN Mul(Neg(GainsFilterMaxChange), current)
            ELSE delta
    IN IF bypassRateLimit THEN desired
       ELSE IF Lt(Abs(current), 1) THEN Add(current, Mul(delta, GainsFilterMaxChange))
       ELSE IF Lt(Abs(rate_limited), Mul(Abs(delta), GainsFilterMinChange))
       THEN Add(current, Mul(delta, GainsFilterMinChange))
       ELSE Add(current, rate_limited)

\* C28: calculateGainChange() equals the gain step of the specification for
\* every input: for every value a gain takes under the filter, every desired
\* value and both values of bypass_rate, and each run of the filter stores
\* that step towards the desired value of each gain.
C28_EqualsReference ==
    /\ \A name \in DOMAIN gains : \A desired_value \in GainValues : \A bypass_rate \in BOOLEAN :
           calculateGainChange(gains[name], desired_value, bypass_rate)
               = advance(gains[name], desired_value, bypass_rate)
    /\ op.name = "timerGainsFilter" =>
           \A name \in DOMAIN gains :
               gains[name] =
                   IF name \in Horizontal
                   THEN advance(op.tick.current[name],
                                Mul(drs_desired_gains[name], op.tick.gain_coeff),
                                op.tick.bypass_filter)
                   ELSE advance(op.tick.current[name], drs_desired_gains[name], FALSE)

\* the filter has run on a gain away from zero, and from the value it stored
\* one desired value is clamped at the maximal change, one falls back to the
\* minimal change and one is reached in one step
C28_Witness ==
    /\ op.name = "timerGainsFilter"
    /\ ~NearZero(op.tick.current.kpxy)
    /\ gains.kpxy # op.tick.current.kpxy
    /\ ~NearZero(gains.kpxy)
    /\ \E desired_value \in GainValues :
           LET change == Sub(desired_value, gains.kpxy) IN
           /\ calculateGainChange(gains.kpxy, desired_value, FALSE)
                  = Add(gains.kpxy, Mul(gains.kpxy, GainsFilterMaxChange))
           /\ change # Mul(gains.kpxy, GainsFilterMaxChange)
    /\ \E desired_value \in GainValues :
           LET change == Sub(desired_value, gains.kpxy) IN
           /\ calculateGainChange(gains.kpxy, desired_value, FALSE)
                  = Add(gains.kpxy, Mul(change, GainsFilterMinChange))
           /\ change # 0
    /\ \E desired_value \in GainValues :
           /\ desired_value # gains.kpxy
           /\ calculateGainChange(gains.kpxy, desired_value, FALSE) = desired_value

\* the step is a full tick of update() at roll = pitch = 0
LevelTickStep == FullTickStep /\ op'.tick.roll = 0 /\ op'.tick.pitch = 0

\* no component of the feedback of the tick was replaced or saturated
Unsaturated(tick) ==
    \A a \in 1 .. 3 : IsFinite(tick.raw[a]) /\ ~tick.saturated[a]

\* C29: at level attitude the world feedback of a full tick is, in each
\* component, kp * Ep + kv * Ev + ka * feed forward + (world integral + body
\* integral rotated by -yaw, 0) + (0, 0, hover thrust); without saturation
\* the thrust of the command is its vertical component; for kp = (2,2,2),
\* kv = (1,1,1), ka = 0, Ep = (1,0,0), Ev = 0, zero integrals and a hover
\* thrust of 0.5 the feedback is (2, 0, 0.5) and the thrust 0.5.
C29_LevelFeedback ==
    [][LevelTickStep =>
          LET t == op'.tick
              kp == <<gains.kpxy, gains.kpxy, gains.kpz>>
              kv == <<gains.kvxy, gains.kvxy, gains.kvz>>
              ka == <<gains.kaxy, gains.kaxy, gains.kaz>>
              hoverThrust == HoverThrust(Add(UavMass, uav_mass_difference))
              bodyIntegral == rotate2d(Ib_b, Neg(t.yaw))
              integral == <<Add(Iw_w[1], bodyIntegral[1]),
                            Add(Iw_w[2], bodyIntegral[2]), 0>>
              hover == <<0, 0, hoverThrust>>
              P == [a \in 1 .. 3 |-> Mul(kp[a], t.Ep[a])]
              V == [a \in 1 .. 3 |-> Mul(kv[a], t.Ev[a])]
              A == [a \in 1 .. 3 |-> Mul(ka[a], t.feed_forward[a])]
          IN /\ \A a \in 1 .. 3 :
                    t.raw[a] = Add(Add(Add(Add(P[a], V[a]), A[a]), integral[a]), hover[a])
             /\ Unsaturated(t) =>
                    /\ t.feedback_w = t.raw
                    /\ ret'.cmd.thrust = t.raw[3]
             /\ ( /\ kp = <<2000, 2000, 2000>>
                  /\ kv = <<1000, 1000, 1000>>
                  /\ ka = <<0, 0, 0>>
                  /\ t.Ep = <<1000, 0, 0>>
                  /\ t.Ev = <<0, 0, 0>>
                  /\ Iw_w = <<0, 0>>
                  /\ Ib_b = <<0, 0>>
                  /\ hoverThrust = 500 ) =>
                    /\ t.raw = <<2000, 0, 500>>
                    /\ ret'.cmd.thrust = 500]_vars

\* a full tick at level attitude, within the saturation, at zero integrals
\* and a hover thrust of 0.5 under kp = (2,2,2), kv = (1,1,1), ka = 0 on
\* Ep = (1,0,0), Ev = 0: the feedback is (2, 0, 0.5)
C29_Witness ==
    /\ AfterFullTick
    /\ op.tick.roll = 0 /\ op.tick.pitch = 0
    /\ Unsaturated(op.tick)
    /\ gains.kpxy = 2000 /\ gains.kpz = 2000
    /\ gains.kvxy = 1000 /\ gains.kvz = 1000
    /\ gains.kaxy = 0 /\ gains.kaz = 0
    /\ op.tick.Ep = <<1000, 0, 0>>
    /\ op.tick.Ev = <<0, 0, 0>>
    /\ op.tick.raw = <<2000, 0, 500>>
    /\ ret.cmd.thrust = 500

\* a full tick at level attitude and yaw = pi/4 whose feedback has a part of
\* the velocity error, of the feed forward and of both integrals
C29_WitnessGeneral ==
    /\ AfterFullTick
    /\ op.tick.roll = 0 /\ op.tick.pitch = 0 /\ op.tick.yaw = 785
    /\ Unsaturated(op.tick)
    /\ op.tick.Ev[1] # 0
    /\ op.tick.feed_forward[1] # 0
    /\ gains.kaxy # 0
    /\ Iw_w # <<0, 0>> /\ Ib_b # <<0, 0>>

\* the state was produced by Pid::update()
AfterPidUpdate == op.name = "Pid::update"

\* the sign of the error is opposite to the sign of the output
Opposes(error, control_output) ==
    (Gt(control_output, 0) /\ Lt(error, 0)) \/ (Lt(control_output, 0) /\ Gt(error, 0))

\* C30: after any sequence of calls on a Pid, every value Pid::update()
\* returns is finite and within +/- saturation, the integral it leaves is
\* finite and within +/- integral_saturation, and when the output is
\* saturated the error is added to the integral only if its sign is opposite
\* to the sign of the saturated output.
C30_PidKeepsBounds ==
    AfterPidUpdate =>
        /\ IsFinite(op.tick.control_output)
        /\ Le(Neg(pid.saturation), op.tick.control_output)
        /\ Le(op.tick.control_output, pid.saturation)
        /\ IsFinite(pid.integral)
        /\ Le(Neg(pid.integral_saturation), pid.integral)
        /\ Le(pid.integral, pid.integral_saturation)
        /\ (op.tick.saturated /\ op.tick.integrated) =>
               Opposes(op.tick.error, op.tick.control_output)
        /\ (op.tick.saturated /\ ~Opposes(op.tick.error, op.tick.control_output)) =>
               pid.integral = op.tick.integral

\* Pid::update() has saturated its output and added an error of the opposite
\* sign to the integral, which is at its limit
C30_Witness ==
    /\ AfterPidUpdate
    /\ op.tick.saturated
    /\ op.tick.integrated
    /\ Opposes(op.tick.error, op.tick.control_output)
    /\ Abs(pid.integral) = pid.integral_saturation

\* Pid::update() has saturated its output on an error of the same sign and
\* left the integral, which is away from zero, as it was
C30_WitnessAntiWindup ==
    /\ AfterPidUpdate
    /\ op.tick.saturated
    /\ ~op.tick.integrated
    /\ pid.integral # 0

\* C31: in every command a full tick returns, total_mass is uav_mass plus the
\* mass_difference of that same command.
C31_TotalMassMatches ==
    AfterFullTick =>
        ret.cmd.total_mass = Add(UavMass, ret.cmd.mass_difference)

\* C32: a command update() returns belongs to the current activation: the
\* update() that comes too close right after the first update() of an
\* activation, before any full tick of it, returns the command that
\* activation was given (as activate() stored it), never a command of an
\* earlier activation.
C32_CommandOfThisActivation ==
    [][(/\ op.name = "update" /\ op.branch = "first_iteration"
        /\ op'.name = "update" /\ op'.branch = "too_close") =>
           /\ ret'.cmd = NewPtr(activation_control_command_)
           /\ ret'.cmd.controller = seed.controller]_vars

\* C33: for an active controller under a stream of messages with strictly
\* increasing stamps, a full tick runs as soon as more than 0.001 s of stamp
\* time has passed since the first update(), at stamp 0, even if no two
\* consecutive messages are more than 0.001 s apart: while no full tick has
\* run, no message later than 0.001 s has been handled.
C33_FullTickOnceElapsed ==
    (is_active /\ ~first_iteration /\ op.name = "update"
         /\ last_output_command = NullPtr) =>
        TooClose(uav_state_.stamp - 0)

\* C34: PidController::update() called after its first iteration with
\* dt <= 0.001 s returns the command the most recent full update() computed,
\* which is not null once a full update() has run.
C34_ReturnsLastCommand ==
    (op.name = "PidController::update" /\ op.branch = "too_small_dt") =>
        ret.cmd = pid_controller.computed

=============================================================================
